---------------------------- MODULE Spec2Model ----------------------------
(***************************************************************************)
(* Model of the Lotto America results service.                             *)
(*                                                                         *)
(*   src/pages/api/lotto.ts   the /api/lotto endpoint: the Iowa text-scan  *)
(*                            parser, the scrape attempt with diagnostics, *)
(*                            the single-slot cache and the handler.       *)
(*   src/pages/api/revalidate.ts   the /api/revalidate endpoint            *)
(*   src/unnamed/part_001     the LotteryUSA markup-selector variant       *)
(*   src/unnamed/part_002     the open-data JSON variant                   *)
(*                                                                         *)
(* A document is a sequence of characters.  The literals the parser looks  *)
(* for ('Winning Numbers', 'Drawing Date:', 'All Star Bonus', the opening  *)
(* and closing tag of a number span) are single symbols of the alphabet;   *)
(* digits, whitespace, '/', ':' and '-' are themselves, and "x" stands for *)
(* any other character.  Indices are 1-based and 0 means "not found"       *)
(* (JavaScript: 0-based and -1).                                           *)
(***************************************************************************)
EXTENDS Integers, Sequences, FiniteSets, TLC

(* ------------------------------ bounds -------------------------------- *)

\* requests that may be suspended at their upstream fetch at the same time
MaxInFlight == 2

\* clock advances in one behaviour
MaxTicks == 2

(* ----------------------------- alphabet ------------------------------- *)

WINNING == "Winning Numbers"
DRAWING == "Drawing Date:"
BONUS == "All Star Bonus"
\* matches /All\s*Star\s*Bonus/i but not indexOf('All Star Bonus')
BONUS_UC == "ALL STAR BONUS"
SPAN_OPEN == "<span class=number>"
SPAN_CLOSE == "</span>"

Digits == {"0", "1", "2", "3", "4", "5", "6", "7", "8", "9"}

IsDigit(c) == c \in Digits

IsSpace(c) == c = " "

DigitVal(c) ==
  CASE c = "0" -> 0 [] c = "1" -> 1 [] c = "2" -> 2 [] c = "3" -> 3
    [] c = "4" -> 4 [] c = "5" -> 5 [] c = "6" -> 6 [] c = "7" -> 7
    [] c = "8" -> 8 [] c = "9" -> 9

(* --------------------------- string helpers --------------------------- *)

\* String.prototype.slice(from, to) on 1-based positions from..to-1
Slice(s, from, to) ==
  SubSeq(s, from, IF to - 1 > Len(s) THEN Len(s) ELSE to - 1)

\* String.prototype.indexOf(tok, from): least position >= from, 0 if none
IndexOf(s, tok, from) ==
  IF \E i \in from..Len(s) : s[i] = tok
    THEN CHOOSE i \in from..Len(s) : s[i] = tok /\ \A j \in from..(i - 1) : s[j] # tok
    ELSE 0

\* raw.replace(/\s+/g, ' '): every run of whitespace becomes one space
RECURSIVE CollapseSpaces(_)
CollapseSpaces(s) ==
  IF s = <<>> THEN <<>>
  ELSE IF IsSpace(Head(s)) /\ Len(s) > 1 /\ IsSpace(s[2])
    THEN CollapseSpaces(Tail(s))
    ELSE <<Head(s)>> \o CollapseSpaces(Tail(s))

\* parseInt(digits, 10) of a non-empty run of digits
RECURSIVE ParseInt(_)
ParseInt(ds) ==
  IF ds = <<>> THEN 0
  ELSE 10 * ParseInt(SubSeq(ds, 1, Len(ds) - 1)) + DigitVal(ds[Len(ds)])

\* length of the maximal run of digits starting at position i, at most max
RECURSIVE DigitRun(_, _, _)
DigitRun(s, i, max) ==
  IF max = 0 \/ i > Len(s) \/ ~IsDigit(s[i]) THEN 0
  ELSE 1 + DigitRun(s, i + 1, max - 1)

\* first position >= i that holds no whitespace (Len(s)+1 at the end)
RECURSIVE SkipSpaces(_, _)
SkipSpaces(s, i) ==
  IF i <= Len(s) /\ IsSpace(s[i]) THEN SkipSpaces(s, i + 1) ELSE i


\* first position >= i that holds a digit, 0 if none
FirstDigitFrom(s, i) ==
  IF \E j \in i..Len(s) : IsDigit(s[j])
    THEN CHOOSE j \in i..Len(s) : IsDigit(s[j]) /\ \A k \in i..(j - 1) : ~IsDigit(s[k])
    ELSE 0

\* least position p in 1..n with A(p), 0 if there is none: where a regular
\* expression first matches
FirstPos(n, A(_)) ==
  IF \E p \in 1..n : A(p)
    THEN CHOOSE p \in 1..n : A(p) /\ \A q \in 1..(p - 1) : ~A(q)
    ELSE 0

\* the digits s[i..i+n-1]
DigitsAt(s, i, n) == SubSeq(s, i, i + n - 1)

(* ------------------------------- dates -------------------------------- *)

MonthNames ==
  <<"January", "February", "March", "April", "May", "June", "July",
    "August", "September", "October", "November", "December">>

\* indexed by Date.prototype.getDay() + 1
WeekdayNames ==
  <<"Sunday", "Monday", "Tuesday", "Wednesday", "Thursday", "Friday", "Saturday">>

\* days since 1970-01-01 of the proleptic Gregorian date (y, m, d), m in 1..12
DaysFromCivil(y, m, d) ==
  LET yy == IF m <= 2 THEN y - 1 ELSE y
      era == yy \div 400
      yoe == yy - era * 400
      mp == IF m > 2 THEN m - 3 ELSE m + 9
      doy == (153 * mp + 2) \div 5 + d - 1
      doe == yoe * 365 + yoe \div 4 - yoe \div 100 + doy
  IN  era * 146097 + doe - 719468

\* the date <<y, m, d>> that lies z days after 1970-01-01
CivilFromDays(z) ==
  LET zz == z + 719468
      era == zz \div 146097
      doe == zz - era * 146097
      yoe == (doe - doe \div 1460 + doe \div 36524 - doe \div 146096) \div 365
      doy == doe - (365 * yoe + yoe \div 4 - yoe \div 100)
      mp == (5 * doy + 2) \div 153
      d == doy - (153 * mp + 2) \div 5 + 1
      m == IF mp < 10 THEN mp + 3 ELSE mp - 9
      y == yoe + era * 400 + (IF m <= 2 THEN 1 ELSE 0)
  IN  <<y, m, d>>

\* new Date(year, month - 1, day): month and day overflow into the next
\* (or previous) months and years; the result is a day number
NewDate(year, month, day) ==
  LET m0 == month - 1
      y == year + m0 \div 12
      m == (m0 % 12) + 1
  IN  DaysFromCivil(y, m, 1) + (day - 1)

\* d.toLocaleDateString('en-US', {weekday:'long', year:'numeric',
\* month:'long', day:'numeric'}), e.g. "Wednesday, October 29, 2025",
\* as its four parts
ToLocaleDateString(days) ==
  LET c == CivilFromDays(days)
  IN  <<WeekdayNames[((days + 4) % 7) + 1], MonthNames[c[2]], ToString(c[3]), ToString(c[1])>>

(* ------------------------ regular expressions ------------------------- *)
(* Each Match operator returns <<>> for "no match" and otherwise a        *)
(* one-element sequence holding what the code reads from the match.  A    *)
(* value that a match uses more than once is the parameter of the         *)
(* operator that continues the match.                                     *)

\* parseInt(group, 10) of the n digits at position i
NumberAt(s, i, n) == ParseInt(DigitsAt(s, i, n))

\* ([0-9]{1,2})\/([0-9]{1,2}) with the first group at position q: r is the
\* run of digits at q
SlashDateAt(s, q, r) ==
  /\ r \in {1, 2}
  /\ q + r <= Len(s)
  /\ s[q + r] = "/"
  /\ DigitRun(s, q + r + 1, 2) >= 1

\* /Drawing Date:[^0-9]*([0-9]{1,2})\/([0-9]{1,2})/ tried at position p
DatePrimaryAt(s, p) ==
  /\ s[p] = DRAWING
  /\ \E q \in {FirstDigitFrom(s, p + 1)} :
       q # 0 /\ SlashDateAt(s, q, DigitRun(s, q, 3))

\* the groups of a month/day match whose first group, r digits, is at q and
\* whose second group has r2 digits; last is the position of its last digit
SlashDateGroups(s, q, r, r2) ==
  [month |-> NumberAt(s, q, r), day |-> NumberAt(s, q + r + 1, r2), last |-> q + r + r2]

SlashDateFrom(s, q, r) == SlashDateGroups(s, q, r, DigitRun(s, q + r + 1, 2))

SlashDate(s, q) == SlashDateFrom(s, q, DigitRun(s, q, 2))

DatePrimaryMatch(s, p) ==
  IF p = 0 THEN <<>> ELSE <<SlashDate(s, FirstDigitFrom(s, p + 1))>>

MatchDatePrimary(s) ==
  DatePrimaryMatch(s, FirstPos(Len(s), LAMBDA i : DatePrimaryAt(s, i)))

\* /<span[^>]*class="number"[^>]*>\s*([0-9]{1,2})\s*<\/span>/gi at position i:
\* <<>> or <<[value, last]>>, last the position of the closing tag.  The
\* digits start at j, there are r of them, and k follows the whitespace
\* after them
SpanClosed(s, j, r, k) ==
  IF k <= Len(s) /\ s[k] = SPAN_CLOSE
    THEN <<[value |-> NumberAt(s, j, r), last |-> k]>>
    ELSE <<>>

SpanDigits(s, j, r) ==
  IF r \in {1, 2} THEN SpanClosed(s, j, r, SkipSpaces(s, j + r)) ELSE <<>>

SpanFrom(s, j) == SpanDigits(s, j, DigitRun(s, j, 3))

SpanAt(s, i) ==
  IF s[i] = SPAN_OPEN THEN SpanFrom(s, SkipSpaces(s, i + 1)) ELSE <<>>

\* the while loop over spanNumberRegex.exec(between): every match from
\* position i on, in order; m is the match tried at i
RECURSIVE SpanBalls(_, _)
RECURSIVE SpanBallsAfter(_, _, _)
SpanBallsAfter(s, i, m) ==
  IF m = <<>> THEN SpanBalls(s, i + 1)
  ELSE <<m[1].value>> \o SpanBalls(s, m[1].last + 1)

SpanBalls(s, i) ==
  IF i > Len(s) THEN <<>> ELSE SpanBallsAfter(s, i, SpanAt(s, i))

\* /All\s*Star\s*Bonus[^0-9]*([0-9]+)/i: the digits after the first marker
BonusDigits(s, q) ==
  IF q = 0 THEN <<>> ELSE <<NumberAt(s, q, DigitRun(s, q, Len(s)))>>

BonusMatch(s, p) ==
  IF p = 0 THEN <<>> ELSE BonusDigits(s, FirstDigitFrom(s, p + 1))

MatchBonus(s) ==
  BonusMatch(s, FirstPos(Len(s), LAMBDA i : s[i] \in {BONUS, BONUS_UC}))

\* /Drawing Date:\s*([0-9]{1,2})\/([0-9]{1,2}):/ tried at position p
DrawingBlockAt(s, p) ==
  /\ s[p] = DRAWING
  /\ \E j \in {SkipSpaces(s, p + 1)} :
       \E r \in {DigitRun(s, j, 3)} :
         /\ r \in {1, 2}
         /\ j + r <= Len(s)
         /\ s[j + r] = "/"
         /\ \E r2 \in {DigitRun(s, j + r + 1, 3)} :
              /\ r2 \in {1, 2}
              /\ j + r + 1 + r2 <= Len(s)
              /\ s[j + r + 1 + r2] = ":"

\* the match at p with its groups g: matched is dateMatch[0]
DrawingBlockGroups(s, p, g) ==
  <<[month |-> g.month, day |-> g.day, matched |-> SubSeq(s, p, g.last + 1)]>>

DrawingBlockMatch(s, p) ==
  IF p = 0 THEN <<>> ELSE DrawingBlockGroups(s, p, SlashDate(s, SkipSpaces(s, p + 1)))

MatchDrawingBlock(s) ==
  DrawingBlockMatch(s, FirstPos(Len(s), LAMBDA i : DrawingBlockAt(s, i)))

\* /(\d{1,2}\/\d{1,2}\/\d{4})/ tried at position i with r1 and r2 digits
FullDateAt(s, i, r1, r2) ==
  /\ DigitRun(s, i, r1) = r1
  /\ i + r1 <= Len(s)
  /\ s[i + r1] = "/"
  /\ DigitRun(s, i + r1 + 1, r2) = r2
  /\ i + r1 + 1 + r2 <= Len(s)
  /\ s[i + r1 + 1 + r2] = "/"
  /\ DigitRun(s, i + r1 + r2 + 2, 4) = 4

FullDateGroups(s, i, r1, r2) ==
  <<[mm |-> NumberAt(s, i, r1),
     dd |-> NumberAt(s, i + r1 + 1, r2),
     yyyy |-> NumberAt(s, i + r1 + r2 + 2, 4),
     matched |-> SubSeq(s, i, i + r1 + r2 + 5)]>>

\* greedy: two digits are tried before one
FullDateDay(s, i, r1) ==
  FullDateGroups(s, i, r1, IF FullDateAt(s, i, r1, 2) THEN 2 ELSE 1)

FullDateMatch(s, i) ==
  IF i = 0 THEN <<>>
  ELSE FullDateDay(s, i, IF \E r2 \in {1, 2} : FullDateAt(s, i, 2, r2) THEN 2 ELSE 1)

MatchFullDate(s) ==
  FullDateMatch(s, FirstPos(Len(s), LAMBDA k : \E r1, r2 \in {1, 2} : FullDateAt(s, k, r1, r2)))

\* k numbers of one or two digits separated by whitespace, starting at
\* position i: /(\d{1,2})\s+ ... (\d{1,2})/ anchored at i; r is the run of
\* digits at i
RECURSIVE NumbersAt(_, _, _)
RECURSIVE NumbersRun(_, _, _, _)
NumbersCons(n, rest) == IF rest = <<>> THEN <<>> ELSE <<n>> \o rest

NumbersRun(s, i, k, r) ==
  IF r = 0 THEN <<>>
  ELSE IF k = 1 THEN <<NumberAt(s, i, r)>>
  ELSE IF i + r <= Len(s) /\ IsSpace(s[i + r])
    THEN NumbersCons(NumberAt(s, i, r), NumbersAt(s, SkipSpaces(s, i + r), k - 1))
    ELSE <<>>

NumbersAt(s, i, k) == NumbersRun(s, i, k, DigitRun(s, i, 2))

\* /(\d{1,2})\s+(\d{1,2})\s+(\d{1,2})\s+(\d{1,2})\s+(\d{1,2})\s+(\d{1,2})/:
\* the six groups of the leftmost match, <<>> if there is none
SixNumbersMatch(s, i) == IF i = 0 THEN <<>> ELSE NumbersAt(s, i, 6)

MatchSixNumbers(s) ==
  SixNumbersMatch(s, FirstPos(Len(s), LAMBDA k : NumbersAt(s, k, 6) # <<>>))

(* ---------------------------- data model ------------------------------ *)
(* An optional field is <<>> when absent and <<v>> when it holds v.       *)
(* Formatted text (a date, the details of a step) is the sequence of its  *)
(* parts.                                                                 *)

\* the long en-US date "Wednesday, October 29, 2025" as its parts
FallbackDate(weekday, month, day, year) == <<weekday, month, day, year>>

fallbackResults ==
  << [date |-> FallbackDate("Wednesday", "October", "29", "2025"),
      numbers |-> <<21, 33, 40, 42, 50>>, starBall |-> 5, allStarBonus |-> 2,
      winners |-> 35560, jackpot |-> "$5,680,000", isLive |-> FALSE,
      debugInfo |-> <<>>],
     [date |-> FallbackDate("Monday", "October", "27", "2025"),
      numbers |-> <<12, 21, 27, 35, 39>>, starBall |-> 2, allStarBonus |-> 4,
      winners |-> 29269, jackpot |-> "$5,530,000", isLive |-> FALSE,
      debugInfo |-> <<>>],
     [date |-> FallbackDate("Saturday", "October", "25", "2025"),
      numbers |-> <<2, 31, 33, 35, 50>>, starBall |-> 7, allStarBonus |-> 2,
      winners |-> 48122, jackpot |-> "$5,400,000", isLive |-> FALSE,
      debugInfo |-> <<>>] >>

\* one DiagnosticStep
Step(label, ok, details) == [label |-> label, ok |-> ok, details |-> details]

\* nums.join(sep) as the sequence of its parts
RECURSIVE Join(_, _)
Join(nums, sep) ==
  IF nums = <<>> THEN <<>>
  ELSE IF Len(nums) = 1 THEN <<ToString(nums[1])>>
  ELSE <<ToString(nums[1]), sep>> \o Join(Tail(nums), sep)

\* the range check of the main numbers without its upper bound
MainInRange_NoUpperBound(mainNumbers) == \A i \in 1..Len(mainNumbers) : mainNumbers[i] >= 1

\* n >= 1 && n <= 52 for every main number
MainInRange(mainNumbers) == \A i \in 1..Len(mainNumbers) : mainNumbers[i] >= 1 /\ mainNumbers[i] <= 52

\* starBall >= 1 && starBall <= 10
StarInRange(starBall) == starBall >= 1 /\ starBall <= 10

\* a multiplier that is matched and then not assigned
BonusOr_NotAssigned(m, current) == current

\* allStarBonus after "if (!isNaN(b) && b >= 1) allStarBonus = b" for the
\* match m
BonusOr(m, current) == IF m # <<>> /\ m[1] >= 1 THEN m[1] ELSE current

BonusValue(text, current) == BonusOr(MatchBonus(text), current)

\* the record the parser returns for the fields in p
LiveRecord(p) ==
  [date |-> p.date, numbers |-> p.mainNumbers, starBall |-> p.starBall,
   allStarBonus |-> p.allStarBonus, winners |-> 0, jackpot |-> "Not available",
   isLive |-> TRUE, debugInfo |-> <<>>]

(* ----------------------- the Iowa text-scan parser --------------------- *)

\* lines 90-106: the date of the primary block for the match m
PrimaryDate(year, m) ==
  IF m # <<>>
    THEN [date |-> ToLocaleDateString(NewDate(year, m[1].month, m[1].day)),
          steps |-> <<Step("date_parsed", TRUE,
                           <<"Drawing Date: ", ToString(m[1].month), "/", ToString(m[1].day)>>)>>]
    ELSE [date |-> <<"Latest Lotto America draw">>, steps |-> <<>>]

\* lines 118-142: the numbers of the primary block for the span values
\* balls; valid is mainOk && starOk
PrimaryChecked(balls, valid) ==
  [mainNumbers |-> IF valid THEN SubSeq(balls, 1, 5) ELSE <<>>,
   starBall |-> IF valid THEN balls[6] ELSE 0,
   steps |->
     <<Step("between_block_numbers_count", TRUE, <<ToString(Len(balls))>>)>>
     \o (IF Len(balls) >= 6
           THEN <<Step("numbers_block_raw", TRUE, Join(SubSeq(balls, 1, 6), " ")),
                  IF valid
                    THEN Step("numbers_parsed", TRUE,
                              Join(SubSeq(balls, 1, 5), " ") \o <<" | ", ToString(balls[6])>>)
                    ELSE Step("numbers_parsed", FALSE,
                              <<"invalid primary: main=">> \o Join(SubSeq(balls, 1, 5), ",")
                                \o <<" star=", ToString(balls[6])>>)>>
           ELSE <<Step("numbers_parsed", FALSE, <<"not enough numbers in primary block">>)>>)]

PrimaryNumbers(balls) ==
  PrimaryChecked(balls,
                 Len(balls) >= 6 /\ MainInRange(SubSeq(balls, 1, 5)) /\ StarInRange(balls[6]))

\* lines 87-151: the primary block from its parts
PrimaryFound(between, date, numbers, allStarBonus) ==
  [date |-> date.date,
   mainNumbers |-> numbers.mainNumbers,
   starBall |-> numbers.starBall,
   allStarBonus |-> allStarBonus,
   steps |->
     <<Step("between_block_sample", TRUE, Slice(between, 1, 201))>>
     \o date.steps \o numbers.steps
     \o <<Step("multiplier_parsed", TRUE, <<ToString(allStarBonus)>>)>>]

PrimaryBetween(between, text, year) ==
  PrimaryFound(between, PrimaryDate(year, MatchDatePrimary(between)),
               PrimaryNumbers(SpanBalls(between, 1)), BonusValue(text, 1))

\* lines 152-158: no primary block
PrimaryMissing(idxWinning, idxDrawing, idxBonus) ==
  [date |-> <<"Latest Lotto America draw">>,
   mainNumbers |-> <<>>,
   starBall |-> 0,
   allStarBonus |-> 1,
   steps |->
     <<Step("primary_block_missing", FALSE,
            <<"idxWinning=", ToString(idxWinning - 1), ", idxDrawing=", ToString(idxDrawing - 1),
              ", idxBonus=", ToString(idxBonus - 1)>>)>>]

\* lines 82-86: the three indexOf calls, each from the one before
PrimaryAtBonus(raw, text, year, idxWinning, idxDrawing, idxBonus) ==
  IF idxDrawing # 0 /\ idxBonus # 0
    THEN PrimaryBetween(Slice(raw, idxDrawing, idxBonus), text, year)
    ELSE PrimaryMissing(idxWinning, idxDrawing, idxBonus)

PrimaryAtDrawing(raw, text, year, idxWinning, idxDrawing) ==
  PrimaryAtBonus(raw, text, year, idxWinning, idxDrawing,
                 IF idxDrawing # 0 THEN IndexOf(raw, BONUS, idxDrawing) ELSE 0)

PrimaryAtWinning(raw, text, year, idxWinning) ==
  PrimaryAtDrawing(raw, text, year, idxWinning,
                   IF idxWinning # 0 THEN IndexOf(raw, DRAWING, idxWinning) ELSE 0)

\* lines 81-158: the block between 'Drawing Date:' and 'All Star Bonus'
PrimaryBlock(raw, text, year) == PrimaryAtWinning(raw, text, year, IndexOf(raw, WINNING, 1))

\* lines 161-199: the date of the full-text scan; current is the date the
\* primary block left
ScanDateOf(year, drawingBlockMatch, fullDate, current) ==
  IF drawingBlockMatch # <<>>
    THEN [date |-> ToLocaleDateString(
                     NewDate(year, drawingBlockMatch[1].month, drawingBlockMatch[1].day)),
          step |-> Step("date_parsed", TRUE, drawingBlockMatch[1].matched)]
  ELSE IF fullDate # <<>>
    THEN [date |-> ToLocaleDateString(NewDate(fullDate[1].yyyy, fullDate[1].mm, fullDate[1].dd)),
          step |-> Step("date_parsed", TRUE, fullDate[1].matched)]
  ELSE [date |-> current, step |-> Step("date_parsed", FALSE, <<"no date found">>)]

ScanDate(text, year, current) ==
  ScanDateOf(year, MatchDrawingBlock(text), MatchFullDate(text), current)

\* lines 201-205: the 600 characters from 'Winning Numbers' on, or the text
SearchRegion(text, winningIdx) ==
  IF winningIdx # 0 THEN Slice(text, winningIdx, winningIdx + 600) ELSE text

\* lines 207-209: searchRegion.match(...) || text.match(...)
NumbersMatchOr(regionMatch, text) ==
  IF regionMatch # <<>> THEN regionMatch ELSE MatchSixNumbers(text)

ScanNumbers(text) ==
  NumbersMatchOr(MatchSixNumbers(SearchRegion(text, IndexOf(text, WINNING, 1))), text)

\* lines 210-245: the scan from its parts; ok = FALSE is "return null"
ScanFound(date, allNums, allStarBonus) ==
  IF allNums = <<>>
    THEN [ok |-> FALSE, date |-> date.date, mainNumbers |-> <<>>, starBall |-> 0,
          allStarBonus |-> allStarBonus,
          steps |-> <<date.step,
                      Step("numbers_parsed", FALSE, <<"no 6-number pattern found (fallback)">>)>>]
  ELSE IF Len(allNums) # 6
    THEN [ok |-> FALSE, date |-> date.date, mainNumbers |-> <<>>, starBall |-> 0,
          allStarBonus |-> allStarBonus,
          steps |-> <<date.step,
                      Step("numbers_parsed", FALSE, <<"parsed numbers length != 6 (fallback)">>)>>]
  ELSE IF ~MainInRange(SubSeq(allNums, 1, 5)) \/ ~StarInRange(allNums[6])
    THEN [ok |-> FALSE, date |-> date.date, mainNumbers |-> <<>>, starBall |-> 0,
          allStarBonus |-> allStarBonus,
          steps |-> <<date.step,
                      Step("numbers_parsed", FALSE,
                           <<"invalid ranges (fallback): main ">> \o Join(SubSeq(allNums, 1, 5), ",")
                             \o <<" star ", ToString(allNums[6])>>)>>]
  ELSE [ok |-> TRUE, date |-> date.date, mainNumbers |-> SubSeq(allNums, 1, 5),
        starBall |-> allNums[6], allStarBonus |-> allStarBonus,
        steps |-> <<date.step,
                    Step("numbers_parsed", TRUE,
                         Join(SubSeq(allNums, 1, 5), " ") \o <<" | ", ToString(allNums[6])>>),
                    Step("multiplier_parsed", TRUE, <<ToString(allStarBonus)>>)>>]

\* lines 160-246: the scan of the whole text, entered when the primary
\* block gave no numbers; prim is what the primary block left
FullTextScan(text, year, prim) ==
  ScanFound(ScanDate(text, year, prim.date), ScanNumbers(text),
            BonusValue(text, prim.allStarBonus))

\* lines 73-74: the two steps every run starts with
HeadSteps(text) ==
  <<Step("html_length", TRUE, <<ToString(Len(text))>>),
    Step("html_sample", TRUE, Slice(text, 1, 301))>>

\* lines 160-256 after the scan
ParseScanned(text, prim, scan) ==
  [result |-> IF scan.ok THEN <<LiveRecord(scan)>> ELSE <<>>,
   steps |-> HeadSteps(text) \o prim.steps \o scan.steps]

\* a parser that scans the full text whatever the primary block gave
ParsePrimary_AlwaysScan(text, year, prim) ==
  ParseScanned(text, prim, FullTextScan(text, year, prim))

\* lines 160-256 after the primary block
ParsePrimary(text, year, prim) ==
  IF prim.mainNumbers = <<>> \/ prim.starBall = 0
    THEN ParseScanned(text, prim, FullTextScan(text, year, prim))
    ELSE [result |-> <<LiveRecord(prim)>>, steps |-> HeadSteps(text) \o prim.steps]

\* lines 71-256 for raw and its whitespace-collapsed text
ParseText(raw, text, year) == ParsePrimary(text, year, PrimaryBlock(raw, text, year))

\* parseIowaLottoAmericaHtml(html, addStep) when the clock says `year`:
\* result is <<>> for null and <<record>> otherwise, steps the calls of
\* addStep in order
parseIowaLottoAmericaHtml(html, year) == ParseText(html, CollapseSpaces(html), year)

(* --------------------------- the scrape attempt ------------------------ *)

sourceUrl == "https://ialottery.com/Pages/Games-Online/LottoAmericaWin.aspx"

\* JSON.stringify(diagnostics): a snapshot of the object as a string
JSONStringify(diagnostics) == [json |-> diagnostics]

\* the fallback cut down to the record that carries the diagnostics
EnrichedFallback_FirstOnly(diagnostics) ==
  <<[fallbackResults[1] EXCEPT !.debugInfo = <<JSONStringify(diagnostics)>>]>>

\* fallbackResults.map((r, idx) => idx === 0 ? {...r, debugInfo: JSON.stringify(diagnostics)} : r)
EnrichedFallback(diagnostics) ==
  <<[fallbackResults[1] EXCEPT !.debugInfo = <<JSONStringify(diagnostics)>>]>>
  \o Tail(fallbackResults)

\* an enrichment that writes debugInfo into the first record of the array
\* itself
FallbackAfterMap_InPlace(fallback, diagnostics) ==
  [fallback EXCEPT ![1].debugInfo = <<JSONStringify(diagnostics)>>]

\* the array fallbackResults.map(...) was called on, after the call: map
\* builds a new array and {...r, debugInfo: ...} a new object, so the
\* receiver and its records are as they were
FallbackAfterMap(fallback, diagnostics) == fallback

\* what the scrape returns with its diagnostics when it falls back
FellBack(diagnostics) ==
  [results |-> EnrichedFallback(diagnostics), diagnostics |-> diagnostics]

\* the diagnostics of an attempt whose GET resolved
ResolvedDiagnostics(status, steps, count, usedFallback) ==
  [steps |-> steps,
   counts |-> [cardsFound |-> count, completeResults |-> count],
   sourceUrl |-> sourceUrl,
   httpStatus |-> <<status>>,
   usedFallback |-> usedFallback,
   errors |-> << <<>> >>]

\* lines 277-296 for what the parser returned
ScrapeParsed(status, parsed) ==
  IF parsed.result = <<>>
    THEN FellBack(ResolvedDiagnostics(status,
           <<Step("http_get", status = 200, <<"HTTP ", ToString(status)>>)>> \o parsed.steps
             \o <<Step("fallback_used", TRUE, <<"Parsed 0 complete results from Iowa Lottery page">>)>>,
           0, <<TRUE>>))
    ELSE [results |-> <<parsed.result[1]>>,
          diagnostics |-> ResolvedDiagnostics(status,
            <<Step("http_get", status = 200, <<"HTTP ", ToString(status)>>)>> \o parsed.steps
              \o <<Step("success", TRUE, <<"1 result parsed">>)>>,
            1, <<>>)]

\* the try block of scrapeLottoResultsWithDiagnostics after axios.get has
\* resolved with (status, data)
ScrapeResolved(status, data, year) ==
  ScrapeParsed(status, parseIowaLottoAmericaHtml(data, year))

\* the catch block of scrapeLottoResultsWithDiagnostics: axios.get rejected
\* with `error`
ScrapeRejected(error) ==
  FellBack([steps |-> <<Step("http_error", FALSE, <<error>>),
                        Step("fallback_used", TRUE, <<"Exception during scrape">>)>>,
            counts |-> [cardsFound |-> 0, completeResults |-> 0],
            sourceUrl |-> sourceUrl,
            httpStatus |-> <<>>,
            usedFallback |-> <<TRUE>>,
            errors |-> << <<error>> >>])

(* ------------------------------ the cache ------------------------------ *)

CACHE_DURATION == 3600000

\* the freshness check with the boundary included
CacheFresh_Inclusive(cached, fetchedAt, currentTime) ==
  Len(cached) > 0 /\ currentTime - fetchedAt <= CACHE_DURATION

\* cachedResults.length > 0 && currentTime - lastFetchTime < CACHE_DURATION
CacheFresh(cached, fetchedAt, currentTime) ==
  Len(cached) > 0 /\ currentTime - fetchedAt < CACHE_DURATION

(* ----------------------------- the handler ----------------------------- *)

\* String.prototype.toLowerCase on the query values of the model
ToLowerCase(str) == IF str = "TRUE" THEN "true" ELSE str

\* String(req.query.debug).toLowerCase() === '1' || ... === 'true'
\* (an absent parameter is undefined, and String(undefined) is "undefined")
debugMode(query) == ToLowerCase(query) = "1" \/ ToLowerCase(query) = "true"

\* the three res.setHeader calls every request starts with
CorsHeaders ==
  {<<"Access-Control-Allow-Origin", "*">>,
   <<"Access-Control-Allow-Methods", "GET, OPTIONS">>,
   <<"Access-Control-Allow-Headers", "Content-Type">>}

\* what a response of the endpoint looks like from outside: status, headers,
\* the shape of the body ("array", "envelope", "text", "empty"), and the
\* results, diagnostics and cache members of the body.  method is the
\* request's and debug the handler's debugMode for it; path names the
\* branch of the code that sent it:
\*   "options", "not_allowed", "cache"        answered without a fetch
\*   "fetch_ok"         the fetch resolved and the parser returned a record
\*   "parse_empty"      the fetch resolved and the parser returned null
\*   "transport_error"  the fetch was rejected
\*   "handler_error"    the handler's own catch block
Response(method, debug, path, status, headers, body, results, diagnostics, cache) ==
  [method |-> method, debug |-> debug, path |-> path, status |-> status,
   headers |-> headers, body |-> body, results |-> results,
   diagnostics |-> diagnostics, cache |-> cache]

NoResponse == Response("", FALSE, "none", 0, {}, "none", <<>>, <<>>, <<>>)

\* res.status(200).end() of the CORS preflight
OptionsResponse ==
  Response("OPTIONS", FALSE, "options", 200, CorsHeaders, "empty", <<>>, <<>>, <<>>)

\* a rejection that does not say which method is allowed
NotAllowedResponse_NoAllow(method) ==
  Response(method, FALSE, "not_allowed", 405, CorsHeaders, "text", <<>>, <<>>, <<>>)

\* res.setHeader('Allow', ['GET']); res.status(405).end(...)
NotAllowedResponse(method) ==
  Response(method, FALSE, "not_allowed", 405, CorsHeaders \cup {<<"Allow", "GET">>},
           "text", <<>>, <<>>, <<>>)

\* a cache hit that puts its cache_used step before the retained ones
CacheHitDiagnostics_Prepended(cached, lastDiag, ageMs) ==
  LET cacheUsed == Step("cache_used", TRUE, <<"age ", ToString(ageMs), "ms">>)
  IN  IF lastDiag # <<>>
        THEN [lastDiag[1] EXCEPT !.steps = <<cacheUsed>> \o lastDiag[1].steps]
        ELSE [steps |-> <<cacheUsed>>,
              counts |-> [cardsFound |-> Len(cached), completeResults |-> Len(cached)],
              sourceUrl |-> "cache",
              httpStatus |-> <<>>,
              usedFallback |-> <<cached[1].isLive = FALSE>>,
              errors |-> <<>>]

\* the diagnostics of a debug cache hit: the retained ones with a
\* cache_used step chained on, or fresh ones when none are retained
CacheHitDiagnostics(cached, lastDiag, ageMs) ==
  LET cacheUsed == Step("cache_used", TRUE, <<"age ", ToString(ageMs), "ms">>)
  IN  IF lastDiag # <<>>
        THEN [lastDiag[1] EXCEPT !.steps = lastDiag[1].steps \o <<cacheUsed>>]
        ELSE [steps |-> <<cacheUsed>>,
              counts |-> [cardsFound |-> Len(cached), completeResults |-> Len(cached)],
              sourceUrl |-> "cache",
              httpStatus |-> <<>>,
              usedFallback |-> <<cached[1].isLive = FALSE>>,
              errors |-> <<>>]

\* a cache-hit branch that computes the age with its operands exchanged
CacheHitResponse_AgeSwapped(debug, cached, fetchedAt, lastDiag, currentTime) ==
  IF debug
    THEN Response("GET", debug, "cache", 200, CorsHeaders, "envelope", cached,
                  <<CacheHitDiagnostics(cached, lastDiag, fetchedAt - currentTime)>>,
                  <<[used |-> TRUE, ageMs |-> fetchedAt - currentTime, lastFetchTime |-> fetchedAt]>>)
    ELSE Response("GET", debug, "cache", 200, CorsHeaders, "array", cached, <<>>, <<>>)

\* the response of the cache-hit branch
CacheHitResponse(debug, cached, fetchedAt, lastDiag, currentTime) ==
  IF debug
    THEN Response("GET", debug, "cache", 200, CorsHeaders, "envelope", cached,
                  <<CacheHitDiagnostics(cached, lastDiag, currentTime - fetchedAt)>>,
                  <<[used |-> TRUE, ageMs |-> currentTime - fetchedAt, lastFetchTime |-> fetchedAt]>>)
    ELSE Response("GET", debug, "cache", 200, CorsHeaders, "array", cached, <<>>, <<>>)

\* a cache update that stores live records only
CacheAfter_LiveOnly(cached, results) ==
  IF Len(results) > 0 /\ results[1].isLive THEN results ELSE cached

\* cachedResults after "if (results.length > 0) cachedResults = results"
CacheAfter(cached, results) == IF Len(results) > 0 THEN results ELSE cached

\* lastFetchTime after "if (results.length > 0) lastFetchTime = currentTime"
FetchTimeAfter(fetchedAt, results, currentTime) ==
  IF Len(results) > 0 THEN currentTime ELSE fetchedAt

\* results.length > 0 ? results : fallbackResults
ResponseData(results) == IF Len(results) > 0 THEN results ELSE fallbackResults

\* the response after the scrape returned; fetchedAt is lastFetchTime
\* after the cache update
FreshResponse(debug, path, scraped, fetchedAt) ==
  IF debug
    THEN Response("GET", debug, path, 200, CorsHeaders, "envelope",
                  ResponseData(scraped.results), <<scraped.diagnostics>>,
                  <<[used |-> FALSE, ageMs |-> 0, lastFetchTime |-> fetchedAt]>>)
    ELSE Response("GET", debug, path, 200, CorsHeaders, "array",
                  ResponseData(scraped.results), <<>>, <<>>)

\* a catch block that reports the error as a server error
CatchResponse_Status500(debug, error, fetchedAt) ==
  Response("GET", debug, "handler_error", 500, CorsHeaders, "envelope", <<>>, <<>>, <<>>)

\* the response of the handler's catch block
CatchResponse(debug, error, fetchedAt) ==
  IF debug
    THEN Response("GET", debug, "handler_error", 200, CorsHeaders, "envelope", fallbackResults,
                  <<[steps |-> <<Step("api_error", FALSE, <<error>>),
                                 Step("fallback_used", TRUE, <<"Handler error">>)>>,
                     counts |-> [cardsFound |-> 0, completeResults |-> 0],
                     sourceUrl |-> "handler",
                     httpStatus |-> <<>>,
                     usedFallback |-> <<TRUE>>,
                     errors |-> << <<error>> >>]>>,
                  <<[used |-> FALSE, ageMs |-> 0, lastFetchTime |-> fetchedAt]>>)
    ELSE Response("GET", debug, "handler_error", 200, CorsHeaders, "array", fallbackResults, <<>>, <<>>)

(* -------------------- the other parsing strategies --------------------- *)
(* Texts are sequences of characters, as documents are.                    *)

\* parseInt(t, 10): leading whitespace, an optional '-', then digits;
\* <<>> is NaN
ParseIntJS(t) ==
  LET p == SkipSpaces(t, 1)
      neg == p <= Len(t) /\ t[p] = "-"
      q == IF neg THEN p + 1 ELSE p
      n == DigitRun(t, q, Len(t))
  IN  IF n = 0 THEN <<>>
      ELSE IF neg THEN <<0 - ParseInt(DigitsAt(t, q, n))>>
      ELSE <<ParseInt(DigitsAt(t, q, n))>>

\* parseInt(t, 10) || dflt: NaN and 0 are falsy
ParseIntOr(t, dflt) ==
  LET n == ParseIntJS(t)
  IN  IF n = <<>> \/ n[1] = 0 THEN dflt ELSE n[1]

\* the numbers pushed by "if (!isNaN(num)) mainNumbers.push(num)" over the
\* texts, in order
RECURSIVE PushParsed(_)
PushParsed(texts) ==
  IF texts = <<>> THEN <<>>
  ELSE LET n == ParseIntJS(Head(texts))
       IN  (IF n = <<>> THEN <<>> ELSE <<n[1]>>) \o PushParsed(Tail(texts))

\* the first five elements of a list (j < 5)
FirstFive(texts) == SubSeq(texts, 1, IF Len(texts) < 5 THEN Len(texts) ELSE 5)

\* bonusText.match(/\d+/) ? parseInt(bonusMatch[0], 10) : 1
BonusOfText(t) ==
  LET q == FirstDigitFrom(t, 1)
  IN  IF q = 0 THEN 1 ELSE ParseInt(DigitsAt(t, q, DigitRun(t, q, Len(t))))

\* one LotteryUSA result card: what the selectors find in it.  date is the
\* trimmed text of '.date, .result-date' ("" if none), numbers the texts of
\* the '.number:not(.star-ball), .ball:not(.star-ball)' elements, star,
\* bonus and jackpot the text of the first matching element (<<>> if none)
Card(date, numbers, star, bonus, jackpot) ==
  [date |-> date, numbers |-> numbers, star |-> star, bonus |-> bonus, jackpot |-> jackpot]

\* the body of cards.each for one card: <<>> or the record it pushes
LotteryUsaCard(card) ==
  LET mainNumbers == PushParsed(FirstFive(card.numbers))
      starBall == IF card.star # <<>> THEN ParseIntOr(card.star[1], 0) ELSE 0
      allStarBonus == IF card.bonus # <<>> THEN BonusOfText(card.bonus[1]) ELSE 1
      jackpot == IF card.jackpot # <<>> THEN card.jackpot[1] ELSE "Not available"
  IN  IF card.date # "" /\ Len(mainNumbers) = 5 /\ starBall > 0
        THEN <<[date |-> <<card.date>>, numbers |-> mainNumbers, starBall |-> starBall,
                allStarBonus |-> allStarBonus, winners |-> 25000, jackpot |-> jackpot,
                isLive |-> TRUE, debugInfo |-> <<>>]>>
        ELSE <<>>

\* the records pushed over all cards of the page
RECURSIVE LotteryUsaCards(_)
LotteryUsaCards(cards) ==
  IF cards = <<>> THEN <<>>
  ELSE LotteryUsaCard(Head(cards)) \o LotteryUsaCards(Tail(cards))

\* the strategies the LotteryUSA scrape applies to a fetched page, in
\* order, before it returns: the markup selectors, and no other
LotteryUsaStrategies == <<"selectors">>

\* a LotteryUSA scrape that counts every card it looks at as complete
ScrapeLotteryUsa_CountingCards(cards) ==
  LET results == LotteryUsaCards(cards)
  IN  [results |-> IF results = <<>> THEN fallbackResults ELSE results,
       cardsFound |-> Len(cards),
       completeResults |-> Len(cards),
       usedFallback |-> results = <<>>,
       attempted |-> LotteryUsaStrategies]

\* what the LotteryUSA scrape returns for a page: the records of its
\* cards, or fallbackResults when there are none
ScrapeLotteryUsa(cards) ==
  LET results == LotteryUsaCards(cards)
  IN  [results |-> IF results = <<>> THEN fallbackResults ELSE results,
       cardsFound |-> Len(cards),
       completeResults |-> Len(results),
       usedFallback |-> results = <<>>,
       attempted |-> LotteryUsaStrategies]

\* numbersText.split(' ').filter(Boolean): the non-empty pieces between
\* single spaces
RECURSIVE SplitWords(_, _)
SplitWords(s, word) ==
  IF s = <<>> THEN (IF word = <<>> THEN <<>> ELSE <<word>>)
  ELSE IF Head(s) = " "
    THEN (IF word = <<>> THEN <<>> ELSE <<word>>) \o SplitWords(Tail(s), <<>>)
    ELSE SplitWords(Tail(s), Append(word, Head(s)))

\* one record of the open-data feed.  draw_date is <<>> when the field is
\* missing, else [raw, ymd]: the string, and the <<y, m, d>> new Date(raw)
\* parses it to (<<>> for an Invalid Date)
Item(drawDate, winningNumbers, multiplier) ==
  [draw_date |-> drawDate, winning_numbers |-> winningNumbers, multiplier |-> multiplier]

\* new Date(item.draw_date).getTime(), in days, 0 without a date (an
\* Invalid Date compares as NaN: the feeds of the model that hold more than
\* one item hold no such date)
DrawTime(item) ==
  IF item.draw_date = <<>> \/ item.draw_date[1].ymd = <<>> THEN 0
  ELSE LET c == item.draw_date[1].ymd IN DaysFromCivil(c[1], c[2], c[3])

\* items.sort((a, b) => db - da): newest first, stable
RECURSIVE InsertByDate(_, _)
InsertByDate(item, sorted) ==
  IF sorted = <<>> THEN <<item>>
  ELSE IF DrawTime(Head(sorted)) >= DrawTime(item)
    THEN <<Head(sorted)>> \o InsertByDate(item, Tail(sorted))
    ELSE <<item>> \o sorted

RECURSIVE SortByDate(_)
SortByDate(items) ==
  IF items = <<>> THEN <<>>
  ELSE InsertByDate(items[Len(items)], SortByDate(SubSeq(items, 1, Len(items) - 1)))

\* the body of the loop over the feed for one item: <<>> or the record it
\* pushes
OpenDataItem(item) ==
  LET date == IF item.draw_date = <<>> THEN <<"Unknown date">>
              ELSE IF item.draw_date[1].ymd = <<>> THEN <<item.draw_date[1].raw>>
              ELSE ToLocaleDateString(DrawTime(item))
      parts == SplitWords(item.winning_numbers, <<>>)
      mainNumbers == IF Len(parts) >= 6 THEN PushParsed(FirstFive(parts)) ELSE <<>>
      star == IF Len(parts) >= 6 THEN ParseIntJS(parts[6]) ELSE <<>>
      starBall == IF star # <<>> THEN star[1] ELSE 0
      allStarBonus == IF item.multiplier # <<>> THEN ParseIntOr(item.multiplier, 1) ELSE 1
  IN  IF Len(mainNumbers) = 5 /\ starBall > 0
        THEN <<[date |-> date, numbers |-> mainNumbers, starBall |-> starBall,
                allStarBonus |-> allStarBonus, winners |-> 0, jackpot |-> "Not available",
                isLive |-> TRUE, debugInfo |-> <<>>]>>
        ELSE <<>>

\* the records pushed over all items, in the order of the loop
RECURSIVE OpenDataItems(_)
OpenDataItems(items) ==
  IF items = <<>> THEN <<>>
  ELSE OpenDataItem(Head(items)) \o OpenDataItems(Tail(items))

\* what the open-data scrape returns for a feed: the records of its items,
\* newest first, or fallbackResults when there are none
ScrapeOpenData(items) ==
  LET results == OpenDataItems(SortByDate(items))
  IN  [results |-> IF results = <<>> THEN fallbackResults ELSE results,
       cardsFound |-> Len(items),
       completeResults |-> Len(results),
       usedFallback |-> results = <<>>]

(* ------------------------------- inputs -------------------------------- *)

\* the year the clock shows when the process starts
FirstYear == 2025

Span(ds) == <<SPAN_OPEN>> \o ds \o <<SPAN_CLOSE>>

SixSpans(a, b, c, d, e, f) == Span(a) \o Span(b) \o Span(c) \o Span(d) \o Span(e) \o Span(f)

\* the page as the parser expects it: marker, date, six number spans, bonus
DocWindowed ==
  <<WINNING, " ", DRAWING, " ", "1", "0", "/", "2", "9", " ">>
  \o SixSpans(<<"2", "1">>, <<"3", "3">>, <<"4", "0">>, <<"4", "2">>, <<"5", "0">>, <<" ", "5", " ">>)
  \o <<" ", BONUS, ":", " ", "2", "x">>

\* the same block without the 'Winning Numbers' marker before it
DocNoMarker == Tail(Tail(DocWindowed))

\* an empty body
DocEmpty == <<>>

\* plain text: a full date, six numbers separated by whitespace, a bonus
DocPlainText ==
  <<"x", " ", "1", "0", "/", "2", "7", "/", "2", "0", "2", "5", "x", " ", " ",
    "1", "2", " ", "2", "1", " ", " ", "2", "7", " ", "3", "5", " ", "3", "9", " ", "2",
    " ", BONUS_UC, " ", "4">>

\* a well-formed block whose fifth main number is out of range
DocOutOfRange ==
  <<WINNING, " ", DRAWING, " ", "1", "0", "/", "2", "9", " ">>
  \o SixSpans(<<"2", "1">>, <<"3", "3">>, <<"4", "0">>, <<"4", "2">>, <<"6", "0">>, <<"5">>)
  \o <<" ", BONUS, ":", " ", "2", "x">>

\* six numbers in plain text whose last one is no star ball
DocStarOutOfRange ==
  <<"7", " ", "8", " ", "9", " ", "1", "0", " ", "1", "1", " ", "1", "2">>

\* a block with five spans only, followed by six numbers in plain text
DocMixed ==
  <<WINNING, " ", DRAWING, "1", "/", "3", ":", " ">>
  \o Span(<<"2">>) \o Span(<<"3", "1">>) \o Span(<<"3", "3">>) \o Span(<<"3", "5">>) \o Span(<<"5", "0">>)
  \o <<" ", "2", " ", "3", "1", " ", "3", "3", " ", "3", "5", " ", "5", "0", " ", "7", " ",
      BONUS, " ", "0", "x">>

Documents ==
  <<DocWindowed, DocNoMarker, DocEmpty, DocPlainText, DocOutOfRange, DocStarOutOfRange, DocMixed>>

\* what axios.get may resolve with, <<status, data>>: a 2xx status only
\* (the default validateStatus), and 204 No Content has an empty body
RECURSIVE Replies(_)
Replies(docs) ==
  IF docs = <<>> THEN << <<204, DocEmpty>> >>
  ELSE << <<200, Head(docs)>> >> \o Replies(Tail(docs))

\* the bodies the upstream page serves in the request model
ServedDocuments == <<DocWindowed, DocOutOfRange, DocEmpty>>

UpstreamReplies == Replies(ServedDocuments)

\* the scrape attempts on every reply in year y, in the order of the replies
RECURSIVE ScrapeAll(_, _)
ScrapeAll(replies, y) ==
  IF replies = <<>> THEN <<>>
  ELSE <<ScrapeResolved(Head(replies)[1], Head(replies)[2], y)>> \o ScrapeAll(Tail(replies), y)

\* every scrape attempt of the model, evaluated once: in the first year
\* and in the year after it
ScrapeTable == <<ScrapeAll(UpstreamReplies, FirstYear), ScrapeAll(UpstreamReplies, FirstYear + 1)>>

\* what the scrape returns when axios.get resolves with the k-th reply in
\* year y
Scraped(k, y) == ScrapeTable[y - FirstYear + 1][k]

\* String(error) of a rejected axios.get
TransportErrors == {"Error: timeout of 15000ms exceeded", "Error: Network Error"}

\* String(error) of an exception caught by the handler itself
HandlerErrors == {"TypeError: handler failure"}

\* values of req.query.debug; "undefined" is the absent parameter
DebugQueries == {"undefined", "1", "TRUE"}

\* methods other than GET and OPTIONS
OtherMethods == {"POST"}

\* how far the clock may move between two events
TickSteps == {1, CACHE_DURATION - 1}

\* Date.now() when the process starts
StartTime == 100 * CACHE_DURATION

\* Date.now() at the first instant of the next year
NewYearTime == StartTime + CACHE_DURATION

\* new Date().getFullYear() when Date.now() is t
FullYear(t) == IF t < NewYearTime THEN FirstYear ELSE FirstYear + 1

\* the decimal text of a natural number
DigitChars == <<"0", "1", "2", "3", "4", "5", "6", "7", "8", "9">>

RECURSIVE Text(_)
Text(n) ==
  IF n < 10 THEN <<DigitChars[n + 1]>>
  ELSE Text(n \div 10) \o <<DigitChars[(n % 10) + 1]>>

\* the texts of a list of numbers
RECURSIVE Texts(_)
Texts(nums) == IF nums = <<>> THEN <<>> ELSE <<Text(Head(nums))>> \o Texts(Tail(nums))

\* the texts joined by single spaces
RECURSIVE Spaced(_)
Spaced(texts) ==
  IF texts = <<>> THEN <<>>
  ELSE IF Len(texts) = 1 THEN texts[1]
  ELSE texts[1] \o <<" ">> \o Spaced(Tail(texts))

\* lists of number texts as a page or a feed may carry them: a valid draw,
\* one with a main number above 52, one with a main number of 0, one with
\* four numbers, one with a text that is no number, one with a sixth element
NumberLists ==
  {Texts(<<21, 33, 40, 42, 50>>), Texts(<<21, 33, 40, 42, 60>>),
   Texts(<<0, 33, 40, 42, 50>>), Texts(<<21, 33, 40, 42>>),
   Texts(<<21, 33, 40>>) \o <<<<"x">>>> \o Texts(<<50>>),
   Texts(<<21, 33, 40, 42, 50, 51>>)}

\* texts of a star ball element
StarTexts == {Text(5), Text(10), Text(11), Text(0), <<"x">>, <<"-", "3">>}

\* texts of a multiplier element
BonusTexts == {<<"2", "x">>, <<"x", "0">>, <<"x">>, <<"-", "3">>}

\* the result cards of the model
Cards ==
  {Card(date, numbers, star, bonus, jackpot) :
     date \in {"", "Wed, Oct 29, 2025"},
     numbers \in NumberLists,
     star \in {<<>>} \cup {<<t>> : t \in StarTexts},
     bonus \in {<<>>} \cup {<<t>> : t \in BonusTexts},
     jackpot \in {<<>>, <<"$5.68 Million">>}}

\* the pages of the model: no card, one card, and some pages of two
CardPages ==
  {<<>>} \cup {<<c>> : c \in Cards}
  \cup {<<c1, c2>> : c1, c2 \in {c \in Cards : c.bonus = <<>> /\ c.jackpot = <<>> /\ c.date # ""
                                               /\ c.star \in {<<Text(5)>>, <<Text(11)>>}
                                               /\ Len(c.numbers) = 5}}

\* draw_date fields
DrawDates ==
  {<<>>, <<[raw |-> "2025-10-29T00:00:00.000", ymd |-> <<2025, 10, 29>>]>>,
   <<[raw |-> "2025-10-27T00:00:00.000", ymd |-> <<2025, 10, 27>>]>>,
   <<[raw |-> "soon", ymd |-> <<>>]>>}

\* winning_numbers fields: five main numbers and the star ball
WinningNumbers ==
  {Spaced(numbers \o <<star>>) : numbers \in NumberLists, star \in StarTexts}
  \cup {<<>>, <<" ">> \o Spaced(Texts(<<21, 33, 40, 42, 50>>)) \o <<" ", " ">> \o Text(5)}

\* the records of the feed
Items ==
  {Item(drawDate, winningNumbers, multiplier) :
     drawDate \in DrawDates,
     winningNumbers \in WinningNumbers,
     multiplier \in {<<>>} \cup BonusTexts \cup {Text(0), Text(3)}}

\* the feeds of the model: no item, one item, and some feeds of two
Feeds ==
  {<<>>} \cup {<<it>> : it \in Items}
  \cup {<<it1, it2>> : it1, it2 \in {it \in Items : it.multiplier = <<>>
                                                     /\ (it.draw_date = <<>> \/ it.draw_date[1].ymd # <<>>)
                                                     /\ it.winning_numbers \in
                                                          {Spaced(Texts(<<21, 33, 40, 42, 50, 5>>)),
                                                           Spaced(Texts(<<21, 33, 40, 42, 60, 5>>))}}}

(* -------------------------------- state -------------------------------- *)

\* a GET request as the handler sees it after its freshness check: its
\* constants debugMode and currentTime, the value of
\* cachedResults.length > 0 in the check, and the number of axios.get
\* calls made for it
Request(debug, currentTime, cachedAtArrival, upstreamGets) ==
  [debugMode |-> debug, currentTime |-> currentTime, cachedAtArrival |-> cachedAtArrival,
   upstreamGets |-> upstreamGets]

NoRequest == Request(FALSE, 0, FALSE, 0)

VARIABLES
  cachedResults,    \* module variable cachedResults
  lastFetchTime,    \* module variable lastFetchTime
  lastDiagnostics,  \* module variable lastDiagnostics, <<>> for null
  now,              \* Date.now()
  ticks,            \* clock advances so far
  pending,          \* the GET requests suspended at "await axios.get", oldest first:
                    \* debugMode, currentTime, cachedAtArrival (the value of
                    \* cachedResults.length > 0 in the request's freshness
                    \* check) and upstreamGets
  response,         \* the response sent by the last step, NoResponse if none
  served,           \* the pending entry of the request `response` answers
  fallbackArray,    \* the module-level array fallbackResults as the running
                    \* process holds it
  keepHistory,      \* whether the behaviour records lastHit
  lastHit,          \* the results and reported age of the latest cache-hit
                    \* response since cachedResults was last written, <<>> if none
  attempt,          \* one scrape attempt as it runs: where it is, the reply and
                    \* the year it works with, diagnostics.steps of its try
                    \* block, the addStep calls made, and the steps it returned
  revalidation,     \* the request the revalidate endpoint handled and what it
                    \* did, <<>> if it handled none
  debugReply,       \* the body of a non-cache debug response of one variant of
                    \* the endpoint: the variant, the path, results,
                    \* diagnostics.usedFallback and
                    \* diagnostics.counts.completeResults; <<>> if none was built
  parseInput,       \* what the last parser run was given
  emitted           \* the strategy of the last parser run, what it returned, the
                    \* candidates it found and the strategies it applied

\* the variables of the request model, and all of them
requestVars ==
  <<cachedResults, lastFetchTime, lastDiagnostics, now, ticks, pending, response, served,
    keepHistory, lastHit, fallbackArray>>

parserVars == <<parseInput, emitted>>

\* the variables of the other models
sideVars == <<parserVars, revalidation, attempt, debugReply>>

vars == <<requestVars, sideVars>>

\* a scrape attempt that has not been started
NoAttempt == [pc |-> "idle", k |-> 0, year |-> 0, steps |-> <<>>, calls |-> 0, returned |-> <<>>]

\* no parser has run
NoRun == [strategy |-> "none", results |-> <<>>, cardsFound |-> 0, attempted |-> <<>>]

Start(history) ==
  /\ cachedResults = <<>>
  /\ lastFetchTime = 0
  /\ lastDiagnostics = <<>>
  /\ now = StartTime
  /\ ticks = 0
  /\ pending = <<>>
  /\ response = NoResponse
  /\ served = NoRequest
  /\ fallbackArray = fallbackResults
  /\ keepHistory = history
  /\ lastHit = <<>>
  /\ revalidation = <<>>
  /\ attempt = NoAttempt
  /\ debugReply = <<>>
  /\ parseInput = <<>>
  /\ emitted = NoRun

\* the state after the module is loaded
Init == Start(FALSE)

\* the same, in a behaviour that records lastHit
HistoryInit == Start(TRUE)

\* what a cache-hit response shows of the cache: its results, and the age
\* it reports (the envelope's cache.ageMs; the bare array reports none).
\* previous is the cache hit before it on the same cache contents, <<>> if
\* none: repeated tells whether there was one, and chained whether that one
\* and this one were both debug responses
HitOf(resp, previous) ==
  [results |-> resp.results,
   ageMs |-> IF resp.cache = <<>> THEN <<>> ELSE <<resp.cache[1].ageMs>>,
   repeated |-> previous # <<>>,
   chained |-> resp.debug /\ previous # <<>> /\ previous[1].ageMs # <<>>]

\* the sequence without its i-th element
RemoveAt(seq, i) == SubSeq(seq, 1, i - 1) \o SubSeq(seq, i + 1, Len(seq))

(* ------------------------------- actions ------------------------------- *)

\* OPTIONS: the CORS preflight
HandleOptions ==
  /\ response' = OptionsResponse
  /\ served' = NoRequest
  /\ UNCHANGED <<cachedResults, lastFetchTime, lastDiagnostics, now, ticks, pending, lastHit,
                 keepHistory, fallbackArray, sideVars>>

\* any method but GET and OPTIONS
HandleNotAllowed ==
  \E method \in OtherMethods :
    /\ response' = NotAllowedResponse(method)
    /\ served' = NoRequest
    /\ UNCHANGED <<cachedResults, lastFetchTime, lastDiagnostics, now, ticks, pending,
                   lastHit, keepHistory, fallbackArray, sideVars>>

\* a cache hit that restarts the freshness window of the snapshot it serves
HandleGetCached_Touching ==
  \E query \in DebugQueries :
    /\ CacheFresh(cachedResults, lastFetchTime, now)
    /\ response' = CacheHitResponse(debugMode(query), cachedResults, lastFetchTime, lastDiagnostics, now)
    /\ served' = Request(debugMode(query), now, TRUE, 0)
    /\ lastHit' = IF keepHistory THEN <<HitOf(response', lastHit)>> ELSE lastHit
    /\ lastFetchTime' = now
    /\ UNCHANGED <<cachedResults, lastDiagnostics, now, ticks, pending, keepHistory, fallbackArray, sideVars>>

\* a cache hit that pushes its cache_used step onto the retained
\* diagnostics themselves
HandleGetCached_InPlace ==
  \E query \in DebugQueries :
    /\ CacheFresh(cachedResults, lastFetchTime, now)
    /\ response' = CacheHitResponse(debugMode(query), cachedResults, lastFetchTime, lastDiagnostics, now)
    /\ served' = Request(debugMode(query), now, TRUE, 0)
    /\ lastHit' = IF keepHistory THEN <<HitOf(response', lastHit)>> ELSE lastHit
    /\ lastDiagnostics' = IF debugMode(query) THEN response'.diagnostics ELSE lastDiagnostics
    /\ UNCHANGED <<cachedResults, lastFetchTime, now, ticks, pending, keepHistory, fallbackArray, sideVars>>

\* GET with a fresh cache: answered at once from the cache
HandleGetCached ==
  \E query \in DebugQueries :
    /\ CacheFresh(cachedResults, lastFetchTime, now)
    /\ response' = CacheHitResponse(debugMode(query), cachedResults, lastFetchTime, lastDiagnostics, now)
    /\ served' = Request(debugMode(query), now, TRUE, 0)
    /\ lastHit' = IF keepHistory THEN <<HitOf(response', lastHit)>> ELSE lastHit
    /\ UNCHANGED <<cachedResults, lastFetchTime, lastDiagnostics, now, ticks, pending,
                   keepHistory, fallbackArray, sideVars>>

\* a handler that lets a request wait for the upstream GET already in
\* flight instead of issuing its own
HandleGetFetch_Joined ==
  \E query \in DebugQueries :
    /\ ~CacheFresh(cachedResults, lastFetchTime, now)
    /\ Len(pending) < MaxInFlight
    /\ pending' = Append(pending, Request(debugMode(query), now, Len(cachedResults) > 0,
                                          IF pending = <<>> THEN 1 ELSE 0))
    /\ response' = NoResponse
    /\ served' = NoRequest
    /\ UNCHANGED <<cachedResults, lastFetchTime, lastDiagnostics, now, ticks, lastHit,
                   keepHistory, fallbackArray, sideVars>>

\* GET with an empty or stale cache: the handler calls the scrape, which
\* issues the upstream GET and suspends
HandleGetFetch ==
  \E query \in DebugQueries :
    /\ ~CacheFresh(cachedResults, lastFetchTime, now)
    /\ Len(pending) < MaxInFlight
    /\ pending' = Append(pending, Request(debugMode(query), now, Len(cachedResults) > 0, 1))
    /\ response' = NoResponse
    /\ served' = NoRequest
    /\ UNCHANGED <<cachedResults, lastFetchTime, lastDiagnostics, now, ticks, lastHit,
                   keepHistory, fallbackArray, sideVars>>

\* the rest of the request once the scrape has returned `scraped`: the
\* retained diagnostics, the cache update and the response
Complete(i, path, scraped) ==
  /\ lastDiagnostics' = <<scraped.diagnostics>>
  /\ cachedResults' = CacheAfter(cachedResults, scraped.results)
  /\ lastFetchTime' = FetchTimeAfter(lastFetchTime, scraped.results, pending[i].currentTime)
  /\ response' = FreshResponse(pending[i].debugMode, path, scraped,
                               FetchTimeAfter(lastFetchTime, scraped.results, pending[i].currentTime))
  /\ served' = pending[i]
  /\ pending' = RemoveAt(pending, i)
  /\ lastHit' = IF Len(scraped.results) > 0 THEN <<>> ELSE lastHit
  /\ fallbackArray' = IF scraped.results[1].isLive THEN fallbackArray
                      ELSE FallbackAfterMap(fallbackArray, scraped.diagnostics)
  /\ UNCHANGED <<now, ticks, keepHistory, sideVars>>

\* the rest of the request once the scrape has returned from its try block
Resolved(i, scraped) ==
  Complete(i, IF scraped.results[1].isLive THEN "fetch_ok" ELSE "parse_empty", scraped)

\* the upstream GET of a suspended request resolves
FetchResolves ==
  \E i \in 1..Len(pending), k \in 1..Len(UpstreamReplies) :
    Resolved(i, Scraped(k, FullYear(now)))

\* a rejected upstream GET that is issued again for the same request
FetchRejects_Retried ==
  \E i \in 1..Len(pending), error \in TransportErrors :
    /\ pending[i].upstreamGets < 2
    /\ pending' = [pending EXCEPT ![i].upstreamGets = @ + 1]
    /\ response' = NoResponse
    /\ served' = NoRequest
    /\ UNCHANGED <<cachedResults, lastFetchTime, lastDiagnostics, now, ticks, lastHit,
                   keepHistory, fallbackArray, sideVars>>

\* the upstream GET of a suspended request fails (network error, timeout)
FetchRejects ==
  \E i \in 1..Len(pending), error \in TransportErrors :
    Complete(i, "transport_error", ScrapeRejected(error))

\* a catch block that logs the error and sends nothing
HandlerThrows_Silent ==
  \E i \in 1..Len(pending), error \in HandlerErrors :
    /\ response' = NoResponse
    /\ served' = pending[i]
    /\ pending' = RemoveAt(pending, i)
    /\ UNCHANGED <<cachedResults, lastFetchTime, lastDiagnostics, now, ticks, lastHit,
                   keepHistory, fallbackArray, sideVars>>

\* an exception escapes the awaited scrape: the handler's catch block
HandlerThrows ==
  \E i \in 1..Len(pending), error \in HandlerErrors :
    /\ response' = CatchResponse(pending[i].debugMode, error, lastFetchTime)
    /\ served' = pending[i]
    /\ pending' = RemoveAt(pending, i)
    /\ UNCHANGED <<cachedResults, lastFetchTime, lastDiagnostics, now, ticks, lastHit,
                   keepHistory, fallbackArray, sideVars>>

\* time passes
Tick ==
  \E d \in TickSteps :
    /\ ticks < MaxTicks
    /\ now' = now + d
    /\ ticks' = ticks + 1
    /\ response' = NoResponse
    /\ served' = NoRequest
    /\ UNCHANGED <<cachedResults, lastFetchTime, lastDiagnostics, pending, lastHit,
                   keepHistory, fallbackArray, sideVars>>

Next ==
  \/ HandleOptions
  \/ HandleNotAllowed
  \/ HandleGetCached
  \/ HandleGetFetch
  \/ FetchResolves
  \/ FetchRejects
  \/ HandlerThrows
  \/ Tick

Spec == Init /\ [][Next]_vars

\* the request model with the history of cache hits recorded
HistorySpec == HistoryInit /\ [][Next]_vars

\* the awaited upstream GET of the i-th suspended request settles: it
\* resolves, or it is rejected (axios.get is called with timeout: 15000),
\* and the request runs on to its response
FetchReturns(i) ==
  /\ i \in 1..Len(pending)
  /\ FetchResolves \/ FetchRejects \/ HandlerThrows
  /\ served' = pending[i]
  /\ pending' = RemoveAt(pending, i)

\* the request model in which every upstream GET eventually settles
FairSpec == Init /\ [][Next]_vars /\ \A i \in 1..MaxInFlight : WF_vars(FetchReturns(i))

(* --------------------------- the parser model --------------------------- *)
(* One run of one parsing strategy on one input.                            *)

\* the Iowa text-scan parser runs on a document in some year
ParseIowa ==
  \E k \in 1..Len(Documents), y \in {FirstYear, FirstYear + 1} :
    /\ emitted = NoRun
    /\ parseInput' = <<Documents[k], y>>
    /\ emitted' = [strategy |-> "iowa",
                   results |-> parseIowaLottoAmericaHtml(Documents[k], y).result,
                   cardsFound |-> 0, attempted |-> <<"text">>]
    /\ UNCHANGED <<requestVars, revalidation, attempt, debugReply>>

\* the LotteryUSA markup selectors run on a page
ParseLotteryUsa ==
  \E cards \in CardPages :
    /\ emitted = NoRun
    /\ parseInput' = cards
    /\ emitted' = [strategy |-> "lotteryusa", results |-> ScrapeLotteryUsa(cards).results,
                   cardsFound |-> ScrapeLotteryUsa(cards).cardsFound,
                   attempted |-> ScrapeLotteryUsa(cards).attempted]
    /\ UNCHANGED <<requestVars, revalidation, attempt, debugReply>>

\* the open-data reader runs on a feed
ParseOpenData ==
  \E items \in Feeds :
    /\ emitted = NoRun
    /\ parseInput' = items
    /\ emitted' = [strategy |-> "opendata", results |-> ScrapeOpenData(items).results,
                   cardsFound |-> ScrapeOpenData(items).cardsFound, attempted |-> <<"json">>]
    /\ UNCHANGED <<requestVars, revalidation, attempt, debugReply>>

ParserNext == ParseIowa \/ ParseLotteryUsa \/ ParseOpenData

ParserSpec == Init /\ [][ParserNext]_vars

(* -------------------- the scrape attempt, call by call ------------------ *)
(* scrapeLottoResultsWithDiagnostics observed after every addStep call.     *)

\* an addStep that replaces an earlier step of the same label
AddStep_Replacing(steps, step) ==
  SelectSeq(steps, LAMBDA s : s.label # step.label) \o <<step>>

\* addStep: diagnostics.steps.push({ label, ok, details })
AddStep(steps, step) == Append(steps, step)

\* what axios.get may resolve with in the attempt model
AttemptReplies == Replies(Documents)

\* the addStep calls of the try block for the k-th reply in year y, in
\* call order: line 278, the parser's, line 284 or 294
AddStepCalls(k, y) ==
  ScrapeResolved(AttemptReplies[k][1], AttemptReplies[k][2], y).diagnostics.steps

\* the scrape is called: diagnostics is created with no step and the
\* upstream GET is awaited
AttemptStarts ==
  /\ attempt.pc = "idle"
  /\ attempt' = [attempt EXCEPT !.pc = "awaiting"]
  /\ UNCHANGED <<requestVars, parserVars, revalidation, debugReply>>

\* axios.get resolves
AttemptFetched ==
  \E k \in 1..Len(AttemptReplies), y \in {FirstYear, FirstYear + 1} :
    /\ attempt.pc = "awaiting"
    /\ attempt' = [attempt EXCEPT !.pc = "running", !.k = k, !.year = y]
    /\ UNCHANGED <<requestVars, parserVars, revalidation, debugReply>>

\* the next addStep call of the try block
AttemptAddsStep ==
  /\ attempt.pc = "running"
  /\ attempt.calls < Len(AddStepCalls(attempt.k, attempt.year))
  /\ attempt' = [attempt EXCEPT
                   !.steps = AddStep(@, AddStepCalls(attempt.k, attempt.year)[attempt.calls + 1]),
                   !.calls = @ + 1]
  /\ UNCHANGED <<requestVars, parserVars, revalidation, debugReply>>

\* the try block returns its diagnostics object
AttemptReturns ==
  /\ attempt.pc = "running"
  /\ attempt.calls = Len(AddStepCalls(attempt.k, attempt.year))
  /\ attempt' = [attempt EXCEPT !.pc = "returned", !.returned = <<attempt.steps>>]
  /\ UNCHANGED <<requestVars, parserVars, revalidation, debugReply>>

\* axios.get rejects: the catch block returns a diagnostics object of its
\* own
AttemptRejected ==
  \E error \in TransportErrors :
    /\ attempt.pc = "awaiting"
    /\ attempt' = [attempt EXCEPT !.pc = "returned",
                                  !.returned = <<ScrapeRejected(error).diagnostics.steps>>]
    /\ UNCHANGED <<requestVars, parserVars, revalidation, debugReply>>

AttemptNext ==
  \/ AttemptStarts
  \/ AttemptFetched
  \/ AttemptAddsStep
  \/ AttemptReturns
  \/ AttemptRejected

AttemptSpec == Init /\ [][AttemptNext]_vars

\* a is a prefix of b
IsPrefix(a, b) == Len(a) <= Len(b) /\ SubSeq(b, 1, Len(a)) = a

\* C20: within one scrape attempt diagnostic steps are only appended, in
\* call order: the step list observed at any point of the attempt is a
\* prefix of the list observed at the next point and of the list the
\* attempt finally returns, on the success path, the zero-result path and
\* the exception path alike.
C20_StepsOnlyAppended ==
  [][/\ IsPrefix(attempt.steps, attempt'.steps)
     /\ attempt'.returned # <<>> => IsPrefix(attempt'.steps, attempt'.returned[1])]_vars

\* an attempt that found no valid record returned after a dozen steps,
\* two of them labelled date_parsed
C20_Witness ==
  /\ attempt.pc = "returned"
  /\ Len(attempt.returned[1]) >= 12
  /\ attempt.returned[1][Len(attempt.returned[1])].label = "fallback_used"
  /\ Len(SelectSeq(attempt.returned[1], LAMBDA s : s.label = "date_parsed")) = 2

(* ------------------ the debug response of each variant ------------------ *)
(* The body the handler builds in debug mode from what its scrape returned, *)
(* for the Iowa text scan, the LotteryUSA selectors and the open-data feed. *)

\* the catch block of the LotteryUSA scrape and of the open-data scrape
ScrapeLotteryUsaRejected(error) ==
  [results |-> fallbackResults, cardsFound |-> 0, completeResults |-> 0, usedFallback |-> TRUE,
   errors |-> <<error>>]

ScrapeOpenDataRejected(error) ==
  [results |-> fallbackResults, cardsFound |-> 0, completeResults |-> 0, usedFallback |-> TRUE,
   errors |-> <<error>>]

\* { results: responseData, diagnostics, cache } as far as results,
\* diagnostics.usedFallback (TRUE when the field is true) and
\* diagnostics.counts.completeResults go
DebugReply(variant, path, results, usedFallback, completeResults) ==
  [variant |-> variant, path |-> path, results |-> ResponseData(results),
   usedFallback |-> usedFallback, completeResults |-> completeResults]

\* the body for what the Iowa scrape returned
IowaReply(path, scraped) ==
  DebugReply("iowa", path, scraped.results, scraped.diagnostics.usedFallback = <<TRUE>>,
             scraped.diagnostics.counts.completeResults)

\* the body for what the LotteryUSA or the open-data scrape returned
VariantReply(variant, path, scraped) ==
  DebugReply(variant, path, scraped.results, scraped.usedFallback, scraped.completeResults)

\* a debug request of the Iowa variant runs its scrape: the upstream GET
\* resolves with a reply, or is rejected
ReplyIowa ==
  /\ debugReply = <<>>
  /\ \/ \E k \in 1..Len(AttemptReplies), y \in {FirstYear, FirstYear + 1} :
          debugReply' = <<IowaReply("resolved",
                                    ScrapeResolved(AttemptReplies[k][1], AttemptReplies[k][2], y))>>
     \/ \E error \in TransportErrors :
          debugReply' = <<IowaReply("rejected", ScrapeRejected(error))>>
  /\ UNCHANGED <<requestVars, parserVars, revalidation, attempt>>

\* the same for the LotteryUSA variant
ReplyLotteryUsa ==
  /\ debugReply = <<>>
  /\ \/ \E cards \in CardPages :
          debugReply' = <<VariantReply("lotteryusa", "resolved", ScrapeLotteryUsa(cards))>>
     \/ \E error \in TransportErrors :
          debugReply' = <<VariantReply("lotteryusa", "rejected", ScrapeLotteryUsaRejected(error))>>
  /\ UNCHANGED <<requestVars, parserVars, revalidation, attempt>>

\* the same for the open-data variant
ReplyOpenData ==
  /\ debugReply = <<>>
  /\ \/ \E items \in Feeds :
          debugReply' = <<VariantReply("opendata", "resolved", ScrapeOpenData(items))>>
     \/ \E error \in TransportErrors :
          debugReply' = <<VariantReply("opendata", "rejected", ScrapeOpenDataRejected(error))>>
  /\ UNCHANGED <<requestVars, parserVars, revalidation, attempt>>

\* the handler's own catch block, the same in every variant
ReplyHandlerError ==
  /\ debugReply = <<>>
  /\ \E variant \in {"iowa", "lotteryusa", "opendata"}, error \in HandlerErrors :
       debugReply' =
         <<[variant |-> variant, path |-> "handler_error",
            results |-> CatchResponse(TRUE, error, 0).results,
            usedFallback |-> CatchResponse(TRUE, error, 0).diagnostics[1].usedFallback = <<TRUE>>,
            completeResults |->
              CatchResponse(TRUE, error, 0).diagnostics[1].counts.completeResults]>>
  /\ UNCHANGED <<requestVars, parserVars, revalidation, attempt>>

VariantNext == ReplyIowa \/ ReplyLotteryUsa \/ ReplyOpenData \/ ReplyHandlerError

VariantSpec == Init /\ [][VariantNext]_vars

\* the records are the fallback records, with or without the diagnostics
\* attached to the first one
AreFallbackRecords(results) ==
  /\ Len(results) = Len(fallbackResults)
  /\ \A i \in 1..Len(results) : [results[i] EXCEPT !.debugInfo = <<>>] = fallbackResults[i]

\* the number of records with isLive = true
LiveRecords(results) == Cardinality({i \in 1..Len(results) : results[i].isLive})

\* C28: in every non-cache debug response the diagnostics agree with the
\* results: diagnostics.usedFallback is true exactly when the returned
\* results are the fallback records, and diagnostics.counts.completeResults
\* is the number of live (isLive = true) records returned.
C28_DiagnosticsAgreeWithResults ==
  debugReply # <<>> =>
    /\ debugReply[1].usedFallback <=> AreFallbackRecords(debugReply[1].results)
    /\ debugReply[1].completeResults = LiveRecords(debugReply[1].results)

\* a debug response with two parsed records out of the cards of a page
C28_Witness ==
  /\ debugReply # <<>>
  /\ debugReply[1].variant = "lotteryusa"
  /\ debugReply[1].path = "resolved"
  /\ ~debugReply[1].usedFallback
  /\ debugReply[1].completeResults = 2
  /\ LiveRecords(debugReply[1].results) = 2

(* ------------------------ the revalidate endpoint ----------------------- *)
(* src/pages/api/revalidate.ts.  secret is process.env.REVALIDATE_SECRET   *)
(* and query is req.query.secret, each <<>> when absent; res is the set of *)
(* regeneration functions the response object offers; throws tells whether *)
(* the regeneration fails.                                                 *)

\* the handler: the status and body it answers with, and the paths it
\* called the regeneration function on.  String(req.query.secret) of an
\* absent parameter is "undefined"; !secret holds for an unset and for an
\* empty secret
RevalidateHandler(secret, query, res, throws) ==
  IF secret = <<>> \/ secret[1] = ""
     \/ (IF query = <<>> THEN "undefined" ELSE query[1]) # secret[1]
    THEN [status |-> 401, body |-> [message |-> "Invalid secret"], regenerated |-> <<>>]
  ELSE IF res = {}
    THEN [status |-> 500,
          body |-> [revalidated |-> FALSE, error |-> "Revalidate not available"],
          regenerated |-> <<>>]
  ELSE IF throws
    THEN [status |-> 500,
          body |-> [revalidated |-> FALSE, error |-> "Error: regeneration failed"],
          regenerated |-> <<"/">>]
  ELSE [status |-> 200, body |-> [revalidated |-> TRUE], regenerated |-> <<"/">>]

\* the configured secrets and the query secrets of the model: absent,
\* empty, a secret, another one, and the text "undefined"
Secrets == {<<>>, <<"">>, <<"s3cret">>, <<"other">>, <<"undefined">>}

\* one request to the revalidate endpoint
HandleRevalidate ==
  \E secret \in Secrets, query \in Secrets,
     res \in SUBSET {"revalidate", "unstable_revalidate"}, throws \in BOOLEAN :
    /\ revalidation = <<>>
    /\ revalidation' = <<[secret |-> secret, query |-> query, res |-> res, throws |-> throws,
                          did |-> RevalidateHandler(secret, query, res, throws)]>>
    /\ UNCHANGED <<requestVars, parserVars, attempt, debugReply>>

RevalidateSpec == Init /\ [][HandleRevalidate]_vars

\* C19: the revalidate endpoint answers 401 and regenerates nothing
\* whenever the configured secret is unset (or empty) or the query secret
\* is absent or differs from it; with a matching secret it answers 500
\* when no regeneration function is available or the regeneration throws,
\* and otherwise regenerates '/' exactly once and answers
\* {revalidated: true}.
C19_RevalidateGuardedBySecret ==
  \A j \in 1..Len(revalidation) :
    IF \/ revalidation[j].secret \in {<<>>, <<"">>}
       \/ revalidation[j].query = <<>>
       \/ revalidation[j].query # revalidation[j].secret
      THEN revalidation[j].did.status = 401 /\ revalidation[j].did.regenerated = <<>>
    ELSE IF revalidation[j].res = {} \/ revalidation[j].throws
      THEN revalidation[j].did.status = 500
    ELSE /\ revalidation[j].did.regenerated = <<"/">>
         /\ revalidation[j].did.status = 200
         /\ revalidation[j].did.body = [revalidated |-> TRUE]

(* ------------------- properties of the request model ------------------- *)

\* the draw data of a record: every field but the attached diagnostics
Draw(rec) ==
  [date |-> rec.date, numbers |-> rec.numbers, starBall |-> rec.starBall,
   allStarBonus |-> rec.allStarBonus, winners |-> rec.winners,
   jackpot |-> rec.jackpot, isLive |-> rec.isLive]

\* the record schema: five main numbers in [1, 52], a star ball in
\* [1, 10], an All Star Bonus multiplier of at least 1
SchemaValid(rec) ==
  /\ Len(rec.numbers) = 5
  /\ \A j \in 1..5 : rec.numbers[j] >= 1 /\ rec.numbers[j] <= 52
  /\ rec.starBall >= 1 /\ rec.starBall <= 10
  /\ rec.allStarBonus >= 1

\* the step completes a fetch attempt that failed
FailedFetchStep == response'.path \in {"transport_error", "parse_empty"}

\* C1: when a fetch attempt fails (the fetch throws, or the page yields no
\* valid record), the step that completes it leaves cachedResults and
\* lastFetchTime exactly as they were.
C1_FailedFetchLeavesCache ==
  [][FailedFetchStep =>
       cachedResults' = cachedResults /\ lastFetchTime' = lastFetchTime]_vars

\* C2: the cache is empty or holds live records only; the fallback records
\* are never stored in it.
C2_CacheHoldsLiveOnly ==
  \A j \in 1..Len(cachedResults) : cachedResults[j].isLive = TRUE

\* the cache as a GET request finds it: empty, or at least an hour old
CacheEmptyOrStale == cachedResults = <<>> \/ now - lastFetchTime >= CACHE_DURATION

\* C3: a GET request starts an upstream fetch if and only if the cache is
\* empty or at least CACHE_DURATION (3 600 000 ms) old; otherwise it is
\* answered with cachedResults and no fetch is started.
C3_FetchIffEmptyOrStale ==
  [][/\ Len(pending') > Len(pending) => CacheEmptyOrStale
     /\ response'.path = "cache" =>
          /\ ~CacheEmptyOrStale
          /\ response'.results = cachedResults
          /\ pending' = pending]_vars

\* a request refetches over a cache that is exactly CACHE_DURATION old
C3_Witness ==
  \E j \in 1..Len(pending) :
    /\ pending[j].cachedAtArrival
    /\ cachedResults # <<>>
    /\ pending[j].currentTime - lastFetchTime = CACHE_DURATION

C5_ResultsNonEmptyAndValid ==
  response.method = "GET" =>
    /\ Len(response.results) > 0
    /\ \A j \in 1..Len(response.results) : SchemaValid(response.results[j])

\* the upstream page parsed to nothing while older results were cached
C5_Witness ==
  /\ response.path = "parse_empty"
  /\ served.cachedAtArrival
  /\ Len(response.results) > 0

C8_ParseEmptyServesLiteralFallback ==
  (response.path = "parse_empty" /\ ~served.cachedAtArrival) =>
    response.results = fallbackResults

\* C9: when a GET request finds a stale, non-empty cache and its fetch or
\* parse fails, the response carries the cached results; the fallback
\* dataset is served only when nothing is cached.
C9_StaleCacheServedOnFailure ==
  [][(FailedFetchStep /\ served'.cachedAtArrival /\ cachedResults # <<>>) =>
       response'.results = cachedResults]_vars

\* C10: a GET request without debug is answered with the bare array and no
\* diagnostics anywhere: no record of it carries debugInfo, on the
\* cache-hit, fetch-success and fetch-failure paths alike.
C10_NonDebugCarriesNoDiagnostics ==
  (response.method = "GET" /\ ~response.debug) =>
    /\ response.body = "array"
    /\ response.diagnostics = <<>>
    /\ \A j \in 1..Len(response.results) : response.results[j].debugInfo = <<>>

\* C11: two GET requests answered from the cache with no cache write
\* between them carry identical results, and the age the later one
\* reports is at least 0, below CACHE_DURATION (3 600 000 ms) and no
\* smaller than the age the earlier one reported.
C11_CacheHitsAgree ==
  [][(response'.path = "cache" /\ lastHit # <<>>) =>
       /\ response'.results = lastHit[1].results
       /\ response'.cache # <<>> =>
            /\ response'.cache[1].ageMs >= 0
            /\ response'.cache[1].ageMs < CACHE_DURATION
            /\ lastHit[1].ageMs # <<>> => response'.cache[1].ageMs >= lastHit[1].ageMs[1]]_vars

\* a second request is answered from the same cache contents, which are
\* by then one millisecond short of an hour old
C11_Witness ==
  /\ response.path = "cache"
  /\ lastHit # <<>>
  /\ lastHit[1].repeated
  /\ lastHit[1].ageMs = <<CACHE_DURATION - 1>>

\* the number of steps labelled cache_used
CacheUsedSteps(steps) == Cardinality({i \in 1..Len(steps) : steps[i].label = "cache_used"})

\* C21: a request answered from the cache leaves lastDiagnostics, its steps
\* included, as the attempt that produced it left it, however many debug
\* cache hits came before; and the diagnostics of a debug cache hit are
\* the retained ones with exactly one cache_used step, chained at the end.
C21_CacheHitLeavesDiagnostics ==
  [][response'.path = "cache" =>
       /\ lastDiagnostics' = lastDiagnostics
       /\ response'.debug =>
            /\ CacheUsedSteps(response'.diagnostics[1].steps) = 1
            /\ lastDiagnostics # <<>> =>
                 /\ response'.diagnostics[1].steps =
                      Append(lastDiagnostics[1].steps,
                             response'.diagnostics[1].steps[Len(response'.diagnostics[1].steps)])
                 /\ [response'.diagnostics[1] EXCEPT !.steps = lastDiagnostics[1].steps]
                      = lastDiagnostics[1]]_vars

\* a debug cache hit that follows another debug cache hit on the same
\* cache contents, with the retained diagnostics still without a
\* cache_used step
C21_Witness ==
  /\ response.path = "cache"
  /\ response.debug
  /\ lastHit # <<>>
  /\ lastHit[1].chained
  /\ lastDiagnostics # <<>>
  /\ CacheUsedSteps(lastDiagnostics[1].steps) = 0
  /\ CacheUsedSteps(response.diagnostics[1].steps) = 1

\* C22: a GET request answered from the cache, with or without debug,
\* leaves cachedResults and lastFetchTime as they were, and it answers with
\* the cached records.
C22_CacheHitReadsOnly ==
  [][response'.path = "cache" =>
       /\ response'.method = "GET"
       /\ cachedResults' = cachedResults
       /\ lastFetchTime' = lastFetchTime
       /\ response'.results = cachedResults]_vars

\* a non-debug request has been answered from a snapshot stored earlier
C22_Witness ==
  /\ response.path = "cache"
  /\ ~response.debug
  /\ response.body = "array"
  /\ response.results = cachedResults
  /\ lastFetchTime < now

\* C23: when a fetch succeeds and its records are stored, lastFetchTime is
\* the clock value at the moment they are stored, however long the
\* upstream fetch took.
C23_TimestampIsTimeOfPut ==
  [][(response'.path = "fetch_ok" /\ cachedResults' = response'.results) =>
       lastFetchTime' = now']_vars

\* C25: however the GET requests suspended at their fetch interleave,
\* lastFetchTime never decreases, and the snapshot in the cache is never
\* replaced by the result of a request that started before the request
\* the snapshot came from.
C25_NoCacheRace ==
  [][/\ lastFetchTime' >= lastFetchTime
     /\ response'.path \in {"fetch_ok", "parse_empty", "transport_error"} =>
          served'.currentTime >= lastFetchTime]_vars

\* diag is the diagnostics of the scrape attempt that returned results: a
\* fallback snapshot carries the attempt's diagnostics in the debugInfo of
\* its first record; a parsed one comes from an attempt that ended with
\* success, counted one result and recorded its numbers
AttemptOf(diag, results) ==
  IF results[1].isLive
    THEN /\ diag.usedFallback = <<>>
         /\ diag.counts = [cardsFound |-> 1, completeResults |-> 1]
         /\ diag.steps[Len(diag.steps)].label = "success"
         /\ \E i \in 1..Len(diag.steps) :
              diag.steps[i] = Step("numbers_parsed", TRUE,
                                   Join(results[1].numbers, " ")
                                     \o <<" | ", ToString(results[1].starBall)>>)
    ELSE results[1].debugInfo = <<JSONStringify(diag)>>

\* C26: lastDiagnostics and cachedResults always stem from the same scrape
\* attempt, and on every debug cache-hit response the diagnostics before
\* the cache_used step are those of the attempt that returned the results
\* being served, however the requests interleave.
C26_DiagnosticsOfServedSnapshot ==
  /\ cachedResults # <<>> =>
       /\ lastDiagnostics # <<>>
       /\ AttemptOf(lastDiagnostics[1], cachedResults)
  /\ (response.path = "cache" /\ response.debug) =>
       /\ Len(response.diagnostics[1].steps) >= 2
       /\ AttemptOf([response.diagnostics[1] EXCEPT
                       !.steps = SubSeq(@, 1, Len(@) - 1)], response.results)

\* a debug cache hit on a snapshot stored by a failed attempt, answered
\* while another request is still suspended at its fetch
C26_Witness ==
  /\ response.path = "cache"
  /\ response.debug
  /\ ~response.results[1].isLive
  /\ response.results[1].debugInfo # <<>>
  /\ response.diagnostics[1].usedFallback = <<TRUE>>
  /\ pending # <<>>

\* the clock values reachable with n advances
RECURSIVE ClockValues(_)
ClockValues(n) ==
  IF n = 0 THEN {StartTime}
  ELSE ClockValues(n - 1) \cup {t + d : t \in ClockValues(n - 1), d \in TickSteps}

\* the GET requests that can be suspended at their fetch
SuspendedRequests ==
  {Request(debug, t, cached, 1) : debug \in BOOLEAN, t \in ClockValues(MaxTicks), cached \in BOOLEAN}

\* the response answers a request on the spot (OPTIONS, a disallowed
\* method, a cache hit), or one that was suspended at its fetch
SentAtOnce(resp) == resp.path \in {"options", "not_allowed", "cache"}

SentAfterFetch(resp) ==
  resp.path \in {"fetch_ok", "parse_empty", "transport_error", "handler_error"}

\* one step of the endpoint with respect to responses: a request is
\* answered on the spot with one response and none stays suspended for it;
\* or a request is suspended and nothing is sent; or one suspended request
\* gets one response and is no longer suspended, the others staying as
\* they are; or no request is involved
OneResponseStep ==
  \/ /\ SentAtOnce(response')
     /\ response'.status \in {200, 405}
     /\ pending' = pending
  \/ /\ response' = NoResponse
     /\ Len(pending') = Len(pending) + 1
     /\ SubSeq(pending', 1, Len(pending)) = pending
  \/ /\ SentAfterFetch(response')
     /\ response'.status = 200
     /\ \E i \in 1..Len(pending) : served' = pending[i] /\ pending' = RemoveAt(pending, i)
  \/ /\ response' = NoResponse
     /\ pending' = pending

\* C27: every request to the results endpoint receives exactly one
\* response.  No step sends a second response for a request or drops a
\* request without one, on any path (cache hit, fetch success, fetch
\* failure, handler exception, OPTIONS, disallowed method); and, every
\* upstream GET eventually settling, every suspended request is eventually
\* answered.
C27_ExactlyOneResponse ==
  /\ [][OneResponseStep]_vars
  /\ \A r \in SuspendedRequests :
       (\E i \in 1..Len(pending) : pending[i] = r) ~> (served = r /\ SentAfterFetch(response))

\* a suspended request has been answered by the handler's catch block
\* while another one is still waiting for its upstream GET
C27_Witness ==
  /\ response.path = "handler_error"
  /\ response.status = 200
  /\ served \in SuspendedRequests
  /\ pending # <<>>

\* C29: the module-level fallback dataset is constant: after any sequence
\* of requests, failures that attach diagnostics to the first fallback
\* record included, fallbackResults holds its three initial records, none
\* with a debugInfo field.
C29_FallbackDatasetConstant ==
  /\ fallbackArray = fallbackResults
  /\ Len(fallbackArray) = 3
  /\ \A i \in 1..Len(fallbackArray) : fallbackArray[i].debugInfo = <<>> /\ ~fallbackArray[i].isLive

\* a failed attempt has attached its diagnostics to a copy of the first
\* fallback record, which the cache now holds
C29_Witness ==
  /\ response.path = "transport_error"
  /\ cachedResults # <<>>
  /\ cachedResults[1].debugInfo # <<>>
  /\ [cachedResults[1] EXCEPT !.debugInfo = <<>>] = fallbackArray[1]

\* the body is the envelope of a cache hit: cache.used is true and the
\* last diagnostic step is labelled cache_used
CacheHitEnvelope(resp) ==
  /\ resp.body = "envelope"
  /\ resp.results # <<>>
  /\ resp.cache # <<>>
  /\ resp.cache[1].used = TRUE
  /\ resp.diagnostics # <<>>
  /\ resp.diagnostics[1].steps # <<>>
  /\ resp.diagnostics[1].steps[Len(resp.diagnostics[1].steps)].label = "cache_used"

\* C12: a GET request with debug that is served from the cache is answered
\* with the envelope {results, diagnostics, cache} in which cache.used is
\* true and the last step of diagnostics.steps is labelled cache_used,
\* with the diagnostics of an earlier attempt retained and, had none been
\* retained, without them.
C12_DebugCacheHitEnvelope ==
  /\ (response.path = "cache" /\ response.debug) => CacheHitEnvelope(response)
  /\ CacheFresh(cachedResults, lastFetchTime, now) =>
       CacheHitEnvelope(CacheHitResponse(TRUE, cachedResults, lastFetchTime, <<>>, now))

\* a debug request was answered from the cache, the steps of the attempt
\* that filled it chained before cache_used
C12_Witness ==
  /\ response.path = "cache"
  /\ response.debug
  /\ Len(response.diagnostics[1].steps) > 1

\* C13: an OPTIONS request is answered with status 200 and the permissive
\* CORS headers; a request with any method other than GET or OPTIONS is
\* answered with status 405 and an Allow header listing GET.
C13_MethodDispatch ==
  /\ response.method = "OPTIONS" =>
       /\ response.status = 200
       /\ <<"Access-Control-Allow-Origin", "*">> \in response.headers
       /\ <<"Access-Control-Allow-Methods", "GET, OPTIONS">> \in response.headers
       /\ <<"Access-Control-Allow-Headers", "Content-Type">> \in response.headers
  /\ response.method \notin {"", "GET", "OPTIONS"} =>
       /\ response.status = 405
       /\ <<"Allow", "GET">> \in response.headers

\* a POST request was rejected
C13_Witness ==
  response.method = "POST" /\ response.status = 405 /\ response.body = "text"

\* the upstream GETs issued for the requests in reqs
RECURSIVE UpstreamGets(_)
UpstreamGets(reqs) ==
  IF reqs = <<>> THEN 0 ELSE Head(reqs).upstreamGets + UpstreamGets(Tail(reqs))

\* C14: refresh is lazy and never retried.  Every GET request issues at
\* most one upstream GET, whether it is still suspended or has been
\* answered; and a step issues an upstream GET only by taking in one GET
\* request that finds the cache empty or stale: not when a fetch fails,
\* and not as time passes between requests.
C14_LazyRefreshNoRetry ==
  [][/\ \A j \in 1..Len(pending') : pending'[j].upstreamGets <= 1
     /\ served'.upstreamGets <= 1
     /\ UpstreamGets(pending') + served'.upstreamGets > UpstreamGets(pending) =>
          /\ CacheEmptyOrStale
          /\ now' = now
          /\ Len(pending') = Len(pending) + 1
          /\ pending'[Len(pending')].currentTime = now
          /\ SubSeq(pending', 1, Len(pending)) = pending]_vars

\* a request whose upstream GET failed over a stale cache has been
\* answered while another request is still suspended
C14_Witness ==
  /\ response.path = "transport_error"
  /\ served.cachedAtArrival
  /\ served.upstreamGets = 1
  /\ pending # <<>>

\* C15: fetches are not de-duplicated.  Every request that found the cache
\* empty or stale is suspended at an upstream GET of its own, also while
\* another request is suspended at one; and the step that completes such a
\* fetch writes the cache: cachedResults becomes what the request is
\* answered with and lastFetchTime the time the request arrived.
C15_NoInFlightDeduplication ==
  [][/\ \A j \in 1..Len(pending') : pending'[j].upstreamGets = 1
     /\ response'.path \in {"fetch_ok", "parse_empty", "transport_error"} =>
          /\ served'.upstreamGets = 1
          /\ cachedResults' = response'.results
          /\ lastFetchTime' = served'.currentTime]_vars

\* of two requests that arrived at the same instant over an empty cache,
\* one has completed its fetch and written the cache while the other is
\* still suspended at its own
C15_Witness ==
  /\ response.path = "fetch_ok"
  /\ ~served.cachedAtArrival
  /\ Len(pending) = 1
  /\ ~pending[1].cachedAtArrival
  /\ pending[1].currentTime = served.currentTime
  /\ cachedResults = response.results

\* C18: the parser is a pure function of the raw document.  At every point
\* of every request sequence, parsing a body the upstream serves yields
\* the records that parsing the same body yielded when the process
\* started: the parser reads neither the cache, nor earlier diagnostics,
\* nor the clock.
C18_ParserPure ==
  \A k \in 1..Len(UpstreamReplies) :
    Scraped(k, FullYear(now)).results = Scraped(k, FullYear(StartTime)).results

(* -------------------- properties of the parser model -------------------- *)

\* C6: every live record a parsing strategy emits (Iowa text scan,
\* LotteryUSA markup selectors, open-data JSON) has exactly five main
\* numbers, each in [1, 52], a star ball in [1, 10] and an All Star Bonus
\* of at least 1; a candidate that fails a check is not emitted.
C6_EmittedLiveRecordsValid ==
  \A j \in 1..Len(emitted.results) :
    emitted.results[j].isLive => SchemaValid(emitted.results[j])

\* C16: whenever the markup selectors find no candidate container, or no
\* complete record, in a fetched page, the tabular strategy is applied to
\* the same page before the scrape returns the fallback data.
C16_TabularTriedBeforeFallback ==
  (emitted.strategy = "lotteryusa" /\ emitted.results = fallbackResults) =>
    \E j \in 2..Len(emitted.attempted) :
      emitted.attempted[1] = "selectors" /\ emitted.attempted[j] = "table"

\* the block of the scenario: 'Drawing Date: 10/29', the six number spans
\* 21 33 40 42 50 5, 'All Star Bonus: 2x'
ScenarioBlock ==
  <<DRAWING, " ", "1", "0", "/", "2", "9", " ">>
  \o SixSpans(<<"2", "1">>, <<"3", "3">>, <<"4", "0">>, <<"4", "2">>, <<"5", "0">>, <<" ", "5", " ">>)
  \o <<" ", BONUS, ":", " ", "2", "x">>

\* the body holds the block of the scenario
HoldsScenario(body) ==
  \E i \in 1..(Len(body) - Len(ScenarioBlock) + 1) :
    SubSeq(body, i, i + Len(ScenarioBlock) - 1) = ScenarioBlock

\* the run returned exactly the record of the scenario, dated October 29
\* of the year the parser ran in
ScenarioRecord ==
  /\ Len(emitted.results) = 1
  /\ emitted.results[1].isLive = TRUE
  /\ emitted.results[1].numbers = <<21, 33, 40, 42, 50>>
  /\ emitted.results[1].starBall = 5
  /\ emitted.results[1].allStarBonus = 2
  /\ SubSeq(emitted.results[1].date, 2, 4) = <<"October", "29", ToString(parseInput[2])>>

\* C17 as stated: for a body that contains 'Drawing Date: 10/29' followed
\* by the six span-number tokens 21, 33, 40, 42, 50, 5 and then 'All Star
\* Bonus: 2x', the parser returns exactly one live record with numbers
\* [21,33,40,42,50], starBall 5, allStarBonus 2 and the date October 29 of
\* the current year, whatever other marker the body holds or lacks.
C17_ScenarioParsedWithoutMarker ==
  (emitted.strategy = "iowa" /\ HoldsScenario(parseInput[1])) => ScenarioRecord

\* C17 as amended: the same, for a body in which the 'Winning Numbers'
\* marker comes before the block; the block alone, without that marker,
\* yields no record.
C17_ScenarioParsedAfterMarker ==
  (emitted.strategy = "iowa" /\ HoldsScenario(parseInput[1])) =>
    IF \E i \in 1..Len(parseInput[1]) : parseInput[1][i] = WINNING
      THEN ScenarioRecord
      ELSE emitted.results = <<>>

\* the parser ran on the page with the marker in the year after the first
C17_Witness ==
  /\ emitted.strategy = "iowa"
  /\ parseInput = <<DocWindowed, FirstYear + 1>>
  /\ emitted.results # <<>>

\* the span numbers of the window between 'Drawing Date:' and
\* 'All Star Bonus' of a document, <<>> when it has no such window; w and d
\* are the positions of 'Winning Numbers' and of 'Drawing Date:'
WindowAtBonus(doc, d, b) ==
  IF d # 0 /\ b # 0 THEN SpanBalls(Slice(doc, d, b), 1) ELSE <<>>

WindowAtDrawing(doc, d) ==
  WindowAtBonus(doc, d, IF d # 0 THEN IndexOf(doc, BONUS, d) ELSE 0)

WindowAtWinning(doc, w) ==
  WindowAtDrawing(doc, IF w # 0 THEN IndexOf(doc, DRAWING, w) ELSE 0)

WindowBalls(doc) == WindowAtWinning(doc, IndexOf(doc, WINNING, 1))

\* six numbers, or the first six of more, are five main numbers in [1, 52]
\* followed by a star ball in [1, 10]
SixValid(nums) ==
  /\ Len(nums) >= 6
  /\ \A i \in 1..5 : nums[i] >= 1 /\ nums[i] <= 52
  /\ nums[6] >= 1 /\ nums[6] <= 10

\* the full-text scan ran: a step was recorded after the step that closes
\* the windowed extraction (multiplier_parsed or primary_block_missing)
ScanRan(steps) ==
  \E i \in 1..(Len(steps) - 1) : steps[i].label \in {"multiplier_parsed", "primary_block_missing"}

\* the three parts of C24 for a run with the window's span numbers balls,
\* the six numbers scanNums of the full-text match, the returned results
\* and the recorded steps
StrategyOrder(balls, scanNums, results, steps) ==
  /\ ScanRan(steps) <=> ~SixValid(balls)
  /\ SixValid(balls) =>
       /\ Len(results) = 1
       /\ results[1].numbers = SubSeq(balls, 1, 5)
       /\ results[1].starBall = balls[6]
  /\ (~SixValid(balls) /\ ~SixValid(scanNums)) => results = <<>>

\* C24: in the text-scan parser the full-text six-number scan runs only if
\* the windowed extraction (between 'Drawing Date:' and 'All Star Bonus')
\* did not give five valid main numbers and a valid star ball; when the
\* windowed extraction succeeds the record carries exactly the first six
\* span numbers of the window; when both fail the parser returns no record.
C24_WindowedBeforeFullTextScan ==
  emitted.strategy = "iowa" =>
    StrategyOrder(WindowBalls(parseInput[1]),
                  ScanNumbers(CollapseSpaces(parseInput[1])),
                  emitted.results,
                  parseIowaLottoAmericaHtml(parseInput[1], parseInput[2]).steps)

\* the parser ran on a document whose window holds six valid span numbers
\* and returned them without scanning the full text
C24_Witness ==
  /\ emitted.strategy = "iowa"
  /\ SixValid(WindowBalls(parseInput[1]))
  /\ Len(emitted.results) = 1
  /\ emitted.results[1].numbers = <<21, 33, 40, 42, 50>>
  /\ emitted.results[1].starBall = 5
  /\ ~ScanRan(parseIowaLottoAmericaHtml(parseInput[1], parseInput[2]).steps)

=============================================================================
